---- MODULE Spec2Model ----
(***************************************************************************)
(* A model of opslag, a Sans-IO mDNS server: the DNS wire codec (labels    *)
(* with pointer compression, queries, answers, records, messages), the     *)
(* Writer, ServiceInfo and the Server state machine.                       *)
(*                                                                         *)
(* Modelled build: the bounded one (feature "alloc" off), where the        *)
(* crate's Vec is heapless::Vec<T, N>: push fails when full, extend        *)
(* panics when full.  A panic of the code is the output kind "Panic".      *)
(*                                                                         *)
(* A str and a byte slice are sequences of bytes (0..255).  An IpAddr is   *)
(* a record [fam, o] with the octets o (4 for V4, 16 for V6).  A u32 that  *)
(* travels on the wire (the ttl) is the pair <<high 16 bits, low 16        *)
(* bits>>.                                                                 *)
(***************************************************************************)
EXTENDS Integers, Sequences, FiniteSets, TLC

VARIABLES
    last_now,            \* Server.last_now
    services,            \* Server.services
    query_targets,       \* Server.query_targets
    local_ips,           \* Server.local_ips
    next_advertise,      \* Server.next_advertise
    next_advertise_idx,  \* Server.next_advertise_idx
    next_query,          \* Server.next_query
    next_query_idx,      \* Server.next_query_idx
    txid_query,          \* Server.txid_query
    next_txid,           \* Server.next_txid
    inp,                 \* the Input of the last call (and the length of its buffer)
    out                  \* the Output of the last call (and what the buffer holds)

server == <<last_now, services, query_targets, local_ips, next_advertise,
            next_advertise_idx, next_query, next_query_idx, txid_query, next_txid>>

vars == <<last_now, services, query_targets, local_ips, next_advertise,
          next_advertise_idx, next_query, next_query_idx, txid_query, next_txid,
          inp, out>>

---------------------------------------------------------------------------
(* Configuration: Server<QLEN, ALEN, LLEN, SLEN, LK>.                      *)

QLEN == 4
ALEN == 8
LLEN == 4
SLEN == 2
LK == 10

---------------------------------------------------------------------------
(* Sequences and bytes.                                                    *)

Take(s, n) == SubSeq(s, 1, n)
Drop(s, n) == SubSeq(s, n + 1, Len(s))
Max(a, b) == IF a >= b THEN a ELSE b
Min(a, b) == IF a <= b THEN a ELSE b

\* u16::to_be_bytes
U16BE(v) == <<(v \div 256) % 256, v % 256>>
\* nom be_u16 on two bytes
BeU16(b) == b[1] * 256 + b[2]
\* u32::to_be_bytes, on <<high, low>>
U32BE(v) == U16BE(v[1]) \o U16BE(v[2])

RECURSIVE BitAnd(_, _)
BitAnd(a, b) ==
    IF a = 0 \/ b = 0 THEN 0
    ELSE (IF a % 2 = 1 /\ b % 2 = 1 THEN 1 ELSE 0) + 2 * BitAnd(a \div 2, b \div 2)

DOT == 46

\* str::find('.'): the 1-based index of the first '.', 0 when there is none
FindDot(s) ==
    IF \E i \in 1..Len(s) : s[i] = DOT
    THEN CHOOSE i \in 1..Len(s) : s[i] = DOT /\ \A j \in 1..(i - 1) : s[j] # DOT
    ELSE 0

\* str::from_utf8(..).is_ok(): the well-formed byte sequences of UTF-8
RECURSIVE IsUtf8(_)
IsUtf8(b) ==
    LET n == Len(b)
        cont(i) == i <= n /\ b[i] >= 128 /\ b[i] <= 191
        in(i, lo, hi) == i <= n /\ b[i] >= lo /\ b[i] <= hi
    IN  IF n = 0 THEN TRUE
        ELSE IF b[1] <= 127 THEN IsUtf8(Drop(b, 1))
        ELSE IF b[1] >= 194 /\ b[1] <= 223 THEN cont(2) /\ IsUtf8(Drop(b, 2))
        ELSE IF b[1] = 224 THEN in(2, 160, 191) /\ cont(3) /\ IsUtf8(Drop(b, 3))
        ELSE IF b[1] = 237 THEN in(2, 128, 159) /\ cont(3) /\ IsUtf8(Drop(b, 3))
        ELSE IF b[1] >= 225 /\ b[1] <= 239 THEN cont(2) /\ cont(3) /\ IsUtf8(Drop(b, 3))
        ELSE IF b[1] = 240 THEN in(2, 144, 191) /\ cont(3) /\ cont(4) /\ IsUtf8(Drop(b, 4))
        ELSE IF b[1] >= 241 /\ b[1] <= 243 THEN cont(2) /\ cont(3) /\ cont(4) /\ IsUtf8(Drop(b, 4))
        ELSE IF b[1] = 244 THEN in(2, 128, 143) /\ cont(3) /\ cont(4) /\ IsUtf8(Drop(b, 4))
        ELSE FALSE

---------------------------------------------------------------------------
(* Time                                                                    *)

\* u64::MAX, the deadline of a server without services.  TLC's integers
\* are 32 bits wide: the model's clock stays below MaxTime and the value
\* stands for "never".
U64_MAX == 2147483647

ADVERTISE_INTERVAL == 15000
QUERY_INTERVAL == 19000

\* impl Add<u64> for Time
TimeAdd(t, rhs) == t + rhs

---------------------------------------------------------------------------
(* Writer                                                                  *)

\* Writer::new: buf holds the bytes of the output slice that were written
\* (the slice itself has cap bytes, all 0 when the host hands it in).
WriterNew(cap) ==
    [cap |-> cap, buf |-> <<>>, position |-> 0, overflow |-> FALSE,
     lookup |-> <<>>, panic |-> FALSE]

\* a panic of the code while it serializes: every later step is skipped
WPanic(w) == [w EXCEPT !.panic = TRUE]

\* output[start .. start + len(data)].copy_from_slice(data)
Patch(buf, start, data) ==
    LET padded == IF Len(buf) < start
                  THEN buf \o [i \in 1..(start - Len(buf)) |-> 0]
                  ELSE buf
    IN  Take(padded, start) \o data \o Drop(padded, start + Len(data))

\* the length of the slice Deref/DerefMut give: empty after an overflow
DerefLen(w) == IF w.overflow THEN 0 ELSE w.cap - w.position

\* w[..n].copy_from_slice(data), n = len(data): indexing the dereferenced
\* slice beyond its end panics
SliceCopy(w, data) ==
    IF w.panic THEN w
    ELSE IF Len(data) > DerefLen(w) THEN WPanic(w)
    ELSE [w EXCEPT !.buf = Patch(w.buf, w.position, data)]

\* Writer::write
WriterWrite(w, data) ==
    IF w.panic \/ w.overflow THEN w
    ELSE IF w.position + Len(data) > w.cap THEN [w EXCEPT !.overflow = TRUE]
    ELSE [w EXCEPT !.buf = Patch(w.buf, w.position, data),
                   !.position = w.position + Len(data)]

\* Writer::write_u8
WriterWriteU8(w, b) ==
    IF w.panic \/ w.overflow THEN w
    ELSE IF w.position >= w.cap THEN [w EXCEPT !.overflow = TRUE]
    ELSE [w EXCEPT !.buf = Patch(w.buf, w.position, <<b>>),
                   !.position = w.position + 1]

\* Writer::inc
WriterInc(w, v) ==
    IF w.panic \/ w.overflow THEN w
    ELSE IF w.position + v > w.cap THEN [w EXCEPT !.overflow = TRUE]
    ELSE [w EXCEPT !.position = w.position + v]

\* Writer::find_label: the offset of the first entry for label, -1 for None
FindLabel(w, label) ==
    IF \E i \in 1..Len(w.lookup) : w.lookup[i][1] = label
    THEN w.lookup[CHOOSE i \in 1..Len(w.lookup) :
                    /\ w.lookup[i][1] = label
                    /\ \A j \in 1..(i - 1) : w.lookup[j][1] # label][2]
    ELSE -1

\* Writer::push_label: a full lookup ignores the entry
PushLabel(w, label, offset) ==
    IF w.panic \/ Len(w.lookup) >= LK THEN w
    ELSE [w EXCEPT !.lookup = Append(w.lookup, <<label, w.position + offset>>)]

\* Writer::reserve: the Reservation is [start, len] of the writer before
Reservation(w, len) == [start |-> w.position, len |-> len]
WriterReserve(w, len) == WriterInc(w, len)

\* Writer::distance_from_reservation
DistanceFromReservation(w, r) == w.position - r.start

\* Writer::write_reservation
WriteReservation(w, r, data) ==
    IF w.panic \/ w.overflow THEN w
    ELSE [w EXCEPT !.buf = Patch(w.buf, r.start, data)]

\* &buffer[..n] as the host reads it after Output::Packet(n, _)
BufferPrefix(w) ==
    IF w.position <= Len(w.buf) THEN Take(w.buf, w.position)
    ELSE w.buf \o [i \in 1..(w.position - Len(w.buf)) |-> 0]

---------------------------------------------------------------------------
(* Label                                                                   *)

\* LabelPart::Str(LabelStr(s)) and LabelPart::Run(LabelRun {run, context})
StrPart(s) == [t |-> "Str", s |-> s, run |-> <<>>, context |-> <<>>]
RunPart(run, context) == [t |-> "Run", s |-> <<>>, run |-> run, context |-> context]

\* Label::default, Label::new, Label::push_back, Label::push_front
\* (Label::new asserts that s does not end with '.')
LabelDefault == <<>>
LabelPushBack(l, s) == IF Len(l) < LLEN THEN Append(l, StrPart(s)) ELSE l
LabelPushFront(l, s) == IF Len(l) < LLEN THEN <<StrPart(s)>> \o l ELSE l
LabelNew(s) == LabelPushBack(LabelDefault, s)

\* LabelStrIter: the segments of a dotted string
RECURSIVE LabelStrIter(_)
LabelStrIter(data) ==
    IF data = <<>> THEN <<>>
    ELSE LET d == FindDot(data)
             end == IF d = 0 THEN Len(data) ELSE d - 1
         IN  <<Take(data, end)>> \o
             (IF end = Len(data) THEN <<>> ELSE LabelStrIter(Drop(data, end + 1)))

\* the `partial` of LabelRunIter: a wire segment is split at every '.'
RECURSIVE SplitOnce(_)
SplitOnce(s) ==
    LET d == FindDot(s)
    IN  IF d = 0 THEN <<s>> ELSE <<Take(s, d - 1)>> \o SplitOnce(Drop(s, d))

\* LabelRunIter: the segments of a run of <len><bytes> (a run is built by
\* Label::parse only, which has checked its lengths, offsets and utf8)
RECURSIVE LabelRunIter(_, _)
LabelRunIter(data, context) ==
    IF Len(data) < 2 THEN <<>>
    ELSE LET len == data[1]
         IN  IF BitAnd(len, 192) > 0
             THEN LabelRunIter(Drop(context, (len % 64) * 256 + data[2]), context)
             ELSE SplitOnce(SubSeq(data, 2, 1 + len))
                  \o LabelRunIter(Drop(data, 1 + len), context)

\* LabelPart::iter
LabelPartIter(part) ==
    IF part.t = "Run" THEN LabelRunIter(part.run, part.context)
    ELSE LabelStrIter(part.s)

\* Label::iter: flat_map over the parts
RECURSIVE LabelIter(_)
LabelIter(l) ==
    IF l = <<>> THEN <<>> ELSE LabelPartIter(Head(l)) \o LabelIter(Tail(l))

\* an equality of the representations, as #[derive(PartialEq)] would give
LabelEqParts(a, b) == a = b

\* impl PartialEq for Label
LabelEq(a, b) == LabelIter(a) = LabelIter(b)

\* impl PartialEq<&str> for Label: iter() against other.split('.')
LabelEqStr(a, other) == LabelIter(a) = SplitOnce(other)

\* Label::is_empty
LabelIsEmpty(l) == LabelIter(l) = <<>>

\* serialize_str_single, written through &mut w[..]
serialize_str_single(v, w) == SliceCopy(w, <<Len(v) % 256>> \o v)

\* the end of serialize_str: the terminating zero of a last part
serialize_str_end(w, is_last) ==
    IF is_last THEN WriterInc(SliceCopy(w, <<0>>), 1) ELSE w

\* serialize_str: one iteration of its loop on `rest`, then the rest
RECURSIVE serialize_str(_, _, _)
serialize_str(rest, w, is_last) ==
    IF w.panic THEN w
    ELSE IF rest = <<>> THEN serialize_str_end(w, is_last)
    ELSE IF is_last /\ FindLabel(w, rest) >= 0
    THEN WriterInc(SliceCopy(w, U16BE(49152 + (FindLabel(w, rest) % 16384))), 2)
    ELSE LET d == FindDot(rest)
             next == IF d = 0 THEN rest ELSE Take(rest, d - 1)
             w1 == serialize_str_single(next, w)
             w2 == PushLabel(w1, rest, 0)
             w3 == WriterInc(w2, 1 + Len(next))
         IN  IF d = 0 THEN serialize_str_end(w3, is_last)
             ELSE serialize_str(Drop(rest, d), w3, is_last)

\* LabelRun::do_serialize into a slice of `limit` bytes: [panic, bytes]
RECURSIVE do_serialize(_, _, _, _)
do_serialize(data, context, acc, limit) ==
    IF data = <<>> THEN [panic |-> FALSE, bytes |-> acc]
    ELSE LET len == data[1]
         IN  IF len = 0
             THEN IF Len(acc) + 1 > limit THEN [panic |-> TRUE, bytes |-> acc]
                  ELSE [panic |-> FALSE, bytes |-> Append(acc, 0)]
             ELSE IF BitAnd(len, 192) > 0
             THEN IF Len(data) < 2 \/ (len % 64) * 256 + data[2] > Len(context)
                  THEN [panic |-> TRUE, bytes |-> acc]
                  ELSE do_serialize(Drop(context, (len % 64) * 256 + data[2]),
                                    context, acc, limit)
             ELSE IF Len(acc) + len + 1 > limit \/ Len(data) < len + 1
                  THEN [panic |-> TRUE, bytes |-> acc]
                  ELSE do_serialize(Drop(data, len + 1), context,
                                    acc \o Take(data, len + 1), limit)

\* LabelRun::serialize
LabelRunSerialize(part, w) ==
    IF w.panic THEN w
    ELSE LET r == do_serialize(part.run, part.context, <<>>, DerefLen(w))
         IN  IF r.panic THEN WPanic(w)
             ELSE WriterInc([w EXCEPT !.buf = Patch(w.buf, w.position, r.bytes)],
                            Len(r.bytes))

\* LabelPart::serialize
LabelPartSerialize(part, w, is_last) ==
    IF part.t = "Run" THEN LabelRunSerialize(part, w)
    ELSE serialize_str(part.s, w, is_last)

\* Label::serialize
RECURSIVE LabelSerialize(_, _)
LabelSerialize(l, w) ==
    IF w.panic \/ l = <<>> THEN w
    ELSE LabelSerialize(Tail(l), LabelPartSerialize(Head(l), w, Len(l) = 1))

---------------------------------------------------------------------------
(* QType, QClass, Flags                                                    *)

QT(k) == [k |-> k, v |-> 0]
QTUnknown(v) == [k |-> "Unknown", v |-> v]

\* QType::from_u16
QTypeFromU16(value) ==
    CASE value = 1 -> QT("A")
      [] value = 28 -> QT("AAAA")
      [] value = 12 -> QT("PTR")
      [] value = 16 -> QT("TXT")
      [] value = 33 -> QT("SRV")
      [] value = 255 -> QT("Any")
      [] OTHER -> QTUnknown(value)

\* QType::to_u16
QTypeToU16(q) ==
    CASE q.k = "A" -> 1
      [] q.k = "AAAA" -> 28
      [] q.k = "PTR" -> 12
      [] q.k = "TXT" -> 16
      [] q.k = "SRV" -> 33
      [] q.k = "Any" -> 255
      [] OTHER -> q.v

\* QClass::from_u16
QClassFromU16(value) ==
    CASE value = 1 -> QT("IN")
      [] value = 32769 -> QT("Multicast")
      [] OTHER -> QTUnknown(value)

\* QClass::to_u16
QClassToU16(c) ==
    CASE c.k = "IN" -> 1
      [] c.k = "Multicast" -> 32769
      [] OTHER -> c.v

RECURSIVE BitOr(_, _)
BitOr(a, b) ==
    IF a = 0 THEN b
    ELSE IF b = 0 THEN a
    ELSE (IF a % 2 = 1 \/ b % 2 = 1 THEN 1 ELSE 0) + 2 * BitOr(a \div 2, b \div 2)

\* the Flags setters: self.0 |= mask, self.0 &= !mask
FlagsSet(f, mask, on) == IF on THEN BitOr(f, mask) ELSE BitAnd(f, 65535 - mask)

\* Flags::set_opcode
FlagsSetOpcode(f, opcode) == BitOr(BitAnd(f, 65535 - 30720), (opcode % 16) * 2048)

\* Flags::standard_request: set_query(true), Opcode::Query, set_recursion_desired(true)
StandardRequest == FlagsSet(FlagsSetOpcode(FlagsSet(0, 32768, FALSE), 0), 256, TRUE)

\* standard_response with set_query(true)
StandardResponseQuery ==
    FlagsSet(FlagsSet(FlagsSetOpcode(FlagsSet(0, 32768, FALSE), 0), 1024, TRUE), 128, FALSE)

\* Flags::standard_response: set_query(false), Opcode::Query,
\* set_authoritative(true), set_recursion_available(false)
StandardResponse ==
    FlagsSet(FlagsSet(FlagsSetOpcode(FlagsSet(0, 32768, TRUE), 0), 1024, TRUE), 128, FALSE)

\* Flags::serialize
FlagsSerialize(f, w) == WriterInc(SliceCopy(w, U16BE(f)), 2)

---------------------------------------------------------------------------
(* IpAddr                                                                  *)

V4(o) == [fam |-> 4, o |-> o]
V6(o) == [fam |-> 6, o |-> o]

\* Ipv4Addr::UNSPECIFIED and the full netmasks of service_info.rs
DEFAULT_ADDR == V4(<<0, 0, 0, 0>>)
NETMASK_FULL_V4 == V4(<<255, 255, 255, 255>>)
NETMASK_FULL_V6 == V6([i \in 1..16 |-> 255])

---------------------------------------------------------------------------
(* Record, Query, Answer                                                   *)

RecA(address) ==
    [t |-> "A", address |-> address, name |-> <<>>, text |-> <<>>,
     priority |-> 0, weight |-> 0, port |-> 0]
RecAAAA(address) ==
    [t |-> "AAAA", address |-> address, name |-> <<>>, text |-> <<>>,
     priority |-> 0, weight |-> 0, port |-> 0]
RecPTR(name) ==
    [t |-> "PTR", address |-> <<>>, name |-> name, text |-> <<>>,
     priority |-> 0, weight |-> 0, port |-> 0]
RecTXT(text) ==
    [t |-> "TXT", address |-> <<>>, name |-> <<>>, text |-> text,
     priority |-> 0, weight |-> 0, port |-> 0]
\* SRV's target is the field name
RecSRV(priority, weight, port, target) ==
    [t |-> "SRV", address |-> <<>>, name |-> target, text |-> <<>>,
     priority |-> priority, weight |-> weight, port |-> port]

\* A::serialize
ASerialize(r, w) ==
    WriterInc(SliceCopy(WriterInc(SliceCopy(w, U16BE(4)), 2), r.address), 4)

\* AAAA::serialize
AAAASerialize(r, w) ==
    WriterInc(SliceCopy(WriterInc(SliceCopy(w, U16BE(16)), 2), r.address), 16)

\* the back-patched RDLENGTH of PTR and SRV: distance_from_reservation - 2
\* is a usize subtraction (it panics below 0 with overflow checks on and
\* wraps without; either way an overflowed writer ignores the reservation)
WriteRdLength(w, r) ==
    IF w.panic THEN w
    ELSE WriteReservation(w, r, U16BE((DistanceFromReservation(w, r) - 2) % 65536))

\* PTR::serialize
PTRSerialize(r, w) ==
    WriteRdLength(LabelSerialize(r.name, WriterReserve(w, 2)), Reservation(w, 2))

\* TXT::serialize
TXTSerialize(r, w) ==
    WriterInc(SliceCopy(WriterInc(SliceCopy(w, U16BE(Len(r.text) % 65536)), 2), r.text),
              Len(r.text) % 65536)

\* SRV::serialize
SRVSerialize(r, w) ==
    LET w1 == WriterReserve(w, 2)
        w2 == WriterInc(SliceCopy(w1, U16BE(r.priority)), 2)
        w3 == WriterInc(SliceCopy(w2, U16BE(r.weight)), 2)
        w4 == WriterInc(SliceCopy(w3, U16BE(r.port)), 2)
    IN  WriteRdLength(LabelSerialize(r.name, w4), Reservation(w, 2))

\* Record::serialize
RecordSerialize(r, w) ==
    CASE w.panic -> w
      [] r.t = "A" -> ASerialize(r, w)
      [] r.t = "AAAA" -> AAAASerialize(r, w)
      [] r.t = "PTR" -> PTRSerialize(r, w)
      [] r.t = "TXT" -> TXTSerialize(r, w)
      [] r.t = "SRV" -> SRVSerialize(r, w)

\* Query::serialize
QuerySerialize(q, w) ==
    WriterWrite(WriterWrite(LabelSerialize(q.name, w), U16BE(QTypeToU16(q.qtype))),
                U16BE(QClassToU16(q.qclass)))

\* Answer::serialize
AnswerSerialize(a, w) ==
    LET w1 == LabelSerialize(a.name, w)
        w2 == WriterWrite(w1, U16BE(QTypeToU16(a.atype)))
        w3 == WriterWrite(w2, U16BE(QClassToU16(a.aclass)))
        w4 == WriterWrite(w3, U32BE(a.ttl))
    IN  RecordSerialize(a.record, w4)

RECURSIVE QueriesSerialize(_, _)
QueriesSerialize(qs, w) ==
    IF w.panic \/ qs = <<>> THEN w ELSE QueriesSerialize(Tail(qs), QuerySerialize(Head(qs), w))

RECURSIVE AnswersSerialize(_, _)
AnswersSerialize(as, w) ==
    IF w.panic \/ as = <<>> THEN w ELSE AnswersSerialize(Tail(as), AnswerSerialize(Head(as), w))

\* Request::serialize
RequestSerialize(m, w) ==
    LET w1 == WriterInc(SliceCopy(w, U16BE(m.id)), 2)
        w2 == FlagsSerialize(m.flags, w1)
        w3 == WriterInc(SliceCopy(w2, U16BE(Len(m.queries) % 65536)), 2)
        w4 == WriterInc(SliceCopy(w3, U16BE(0)), 2)
        w5 == WriterInc(SliceCopy(w4, U16BE(0)), 2)
        w6 == WriterInc(SliceCopy(w5, U16BE(0)), 2)
    IN  QueriesSerialize(m.queries, w6)

\* Response::serialize
ResponseSerialize(m, w) ==
    LET w1 == WriterInc(SliceCopy(w, U16BE(m.id)), 2)
        w2 == FlagsSerialize(m.flags, w1)
        w3 == WriterInc(SliceCopy(w2, U16BE(Len(m.queries) % 65536)), 2)
        w4 == WriterInc(SliceCopy(w3, U16BE(Len(m.answers) % 65536)), 2)
        w5 == WriterInc(SliceCopy(w4, U16BE(0)), 2)
        w6 == WriterInc(SliceCopy(w5, U16BE(0)), 2)
    IN  AnswersSerialize(m.answers, QueriesSerialize(m.queries, w6))

---------------------------------------------------------------------------
(* Parsing.  A parser gives [ok, rest, v]: nom's Ok((rest, v)), or Err.    *)

ParseErr == [ok |-> FALSE, rest |-> <<>>, v |-> <<>>]
ParseOk(rest, v) == [ok |-> TRUE, rest |-> rest, v |-> v]

\* nom: be_u8, be_u16, be_u32, take(n)
be_u8(input) ==
    IF Len(input) < 1 THEN ParseErr ELSE ParseOk(Drop(input, 1), input[1])
be_u16(input) ==
    IF Len(input) < 2 THEN ParseErr ELSE ParseOk(Drop(input, 2), BeU16(input))
be_u32(input) ==
    IF Len(input) < 4 THEN ParseErr
    ELSE ParseOk(Drop(input, 4), <<BeU16(input), BeU16(Drop(input, 2))>>)
take(n, input) ==
    IF Len(input) < n THEN ParseErr ELSE ParseOk(Drop(input, n), Take(input, n))

\* Label::do_parse: the loop from `input` on, `all` the slice the run
\* started at; v is the label `into`
RECURSIVE do_parse(_, _, _, _, _, _)
do_parse(all, input, run_end, context, into, recurse_limit) ==
    IF Len(input) < 1 THEN ParseErr
    ELSE
    LET len == input[1]
        new_input == Drop(input, 1)
        is_end == len = 0
        is_ptr == BitAnd(len, 192) > 0
        run_end1 == IF ~is_ptr THEN run_end + 1 ELSE run_end
        closes == is_end \/ (is_ptr /\ run_end1 > 0)
        into1 == IF closes THEN Append(into, RunPart(Take(all, run_end1), context))
                 ELSE into
    IN  IF closes /\ Len(into) >= LLEN THEN ParseErr
        ELSE IF is_end THEN ParseOk(new_input, into1)
        ELSE IF is_ptr
        THEN IF Len(new_input) < 1 THEN ParseErr
             ELSE LET offset == (len % 64) * 256 + new_input[1]
                      pointered == Drop(context, offset)
                  IN  IF offset > Len(context) THEN ParseErr
                      ELSE IF \/ Len(pointered) < 2
                              \/ Take(pointered, 2) = Take(input, 2)
                              \/ recurse_limit = 0
                      THEN ParseErr
                      ELSE LET r == do_parse(pointered, pointered, 0, context, into1,
                                             recurse_limit - 1)
                           IN  IF r.ok THEN ParseOk(Drop(new_input, 1), r.v)
                               ELSE ParseErr
        ELSE IF Len(new_input) < len THEN ParseErr
        ELSE IF ~IsUtf8(Take(new_input, len)) THEN ParseErr
        ELSE do_parse(all, Drop(new_input, len), run_end1 + len, context, into1,
                      recurse_limit)

\* Label::parse that follows up to 6 pointers
LabelParseDeep(input, context) == do_parse(input, input, 0, context, LabelDefault, 6)

\* Label::parse (it asserts that context is not empty)
LabelParse(input, context) == do_parse(input, input, 0, context, LabelDefault, 4)

\* `let (input, x) = parser(input)?;`: p holds the input left and the values
\* parsed so far, r is what the parser gave on p.rest
Then(p, r) ==
    IF ~p.ok \/ ~r.ok THEN ParseErr ELSE ParseOk(r.rest, Append(p.v, r.v))
then_u16(p) == Then(p, be_u16(p.rest))
then_u32(p) == Then(p, be_u32(p.rest))
then_label(p, context) == Then(p, LabelParse(p.rest, context))
\* take(length), length the u16 parsed last
then_take(p) == IF ~p.ok THEN p ELSE Then(p, take(p.v[Len(p.v)], p.rest))

\* Query::parse
QueryOf(p) ==
    IF ~p.ok THEN ParseErr
    ELSE ParseOk(p.rest, [name |-> p.v[1], qtype |-> QTypeFromU16(p.v[2]),
                          qclass |-> QClassFromU16(p.v[3])])
QueryParse(input, context) ==
    QueryOf(then_u16(then_u16(then_label(ParseOk(input, <<>>), context))))

\* A::parse
AOf(p) ==
    IF ~p.ok \/ Len(p.v[2]) # 4 THEN ParseErr ELSE ParseOk(p.rest, RecA(p.v[2]))
AParse(input) == AOf(then_take(then_u16(ParseOk(input, <<>>))))

\* AAAA::parse
AAAAOf(p) ==
    IF ~p.ok \/ Len(p.v[2]) # 16 THEN ParseErr ELSE ParseOk(p.rest, RecAAAA(p.v[2]))
AAAAParse(input) == AAAAOf(then_take(then_u16(ParseOk(input, <<>>))))

\* PTR::parse
PTROf(p) == IF ~p.ok THEN ParseErr ELSE ParseOk(p.rest, RecPTR(p.v[2]))
PTRParse(input, context) == PTROf(then_label(then_u16(ParseOk(input, <<>>)), context))

\* TXT::parse
TXTOf(p) ==
    IF ~p.ok \/ ~IsUtf8(p.v[2]) THEN ParseErr ELSE ParseOk(p.rest, RecTXT(p.v[2]))
TXTParse(input) == TXTOf(then_take(then_u16(ParseOk(input, <<>>))))

\* SRV::parse
SRVOf(p) ==
    IF ~p.ok THEN ParseErr
    ELSE ParseOk(p.rest, RecSRV(p.v[2], p.v[3], p.v[4], p.v[5]))
SRVParse(input, context) ==
    SRVOf(then_label(then_u16(then_u16(then_u16(then_u16(ParseOk(input, <<>>))))),
                     context))

\* Record::parse
RecordParse(input, context, record_type) ==
    CASE record_type.k = "A" -> AParse(input)
      [] record_type.k = "AAAA" -> AAAAParse(input)
      [] record_type.k = "PTR" -> PTRParse(input, context)
      [] record_type.k = "TXT" -> TXTParse(input)
      [] record_type.k = "SRV" -> SRVParse(input, context)
      [] OTHER -> ParseErr

\* Answer::parse
then_record(p, context) ==
    IF ~p.ok THEN p
    ELSE Then(p, RecordParse(p.rest, context, QTypeFromU16(p.v[2])))
AnswerOf(p) ==
    IF ~p.ok THEN ParseErr
    ELSE ParseOk(p.rest, [name |-> p.v[1], atype |-> QTypeFromU16(p.v[2]),
                          aclass |-> QClassFromU16(p.v[3]), ttl |-> p.v[4],
                          record |-> p.v[5]])
AnswerParse(input, context) ==
    AnswerOf(then_record(then_u32(then_u16(then_u16(
        then_label(ParseOk(input, <<>>), context)))), context))

\* a push that drops what a full Vec has no room for and parses on
ThenPushTruncate(p, r, cap) ==
    IF ~p.ok \/ ~r.ok THEN ParseErr
    ELSE IF Len(p.v) >= cap THEN ParseOk(r.rest, p.v)
    ELSE ParseOk(r.rest, Append(p.v, r.v))

\* `vec.push(x).map_err(..)?` after `parser(input)?`: a full Vec fails the parse
ThenPush(p, r, cap) ==
    IF ~p.ok \/ ~r.ok \/ Len(p.v) >= cap THEN ParseErr
    ELSE ParseOk(r.rest, Append(p.v, r.v))

\* the loop `for _ in 0..qdcount` of Request::parse and Response::parse
RECURSIVE ParseQueries(_, _, _)
ParseQueries(n, p, context) ==
    IF n = 0 \/ ~p.ok THEN p
    ELSE ParseQueries(n - 1, ThenPush(p, QueryParse(p.rest, context), QLEN), context)

\* the loop `for _ in 0..ancount` of Response::parse
RECURSIVE ParseAnswers(_, _, _)
ParseAnswers(n, p, context) ==
    IF n = 0 \/ ~p.ok THEN p
    ELSE ParseAnswers(n - 1, ThenPush(p, AnswerParse(p.rest, context), ALEN), context)

\* the six u16 of a header: <<id, flags, qdcount, ancount, nscount, arcount>>
HeaderParse(input) ==
    IF Len(input) < 12 THEN ParseErr
    ELSE ParseOk(Drop(input, 12), [i \in 1..6 |-> BeU16(SubSeq(input, 2 * i - 1, 2 * i))])

\* the queries after a header h
HeaderQueries(h, context) ==
    IF ~h.ok THEN ParseErr ELSE ParseQueries(h.v[3], ParseOk(h.rest, <<>>), context)

\* Request::parse
RequestOf(h, q) ==
    IF ~h.ok \/ ~q.ok THEN ParseErr
    ELSE ParseOk(q.rest, [kind |-> "Request", id |-> h.v[1], flags |-> h.v[2],
                          queries |-> q.v, answers |-> <<>>])
RequestFrom(h, context) == RequestOf(h, HeaderQueries(h, context))
RequestParse(input) == RequestFrom(HeaderParse(input), input)

\* Response::parse
ResponseOf(h, q, a) ==
    IF ~h.ok \/ ~q.ok \/ ~a.ok THEN ParseErr
    ELSE ParseOk(a.rest, [kind |-> "Response", id |-> h.v[1], flags |-> h.v[2],
                          queries |-> q.v, answers |-> a.v])
ResponseAnswers(h, q, context) ==
    IF ~h.ok \/ ~q.ok THEN ParseErr
    ELSE ResponseOf(h, q, ParseAnswers(h.v[4], ParseOk(q.rest, <<>>), context))
ResponseFrom(h, context) == ResponseAnswers(h, HeaderQueries(h, context), context)
ResponseParse(input) == ResponseFrom(HeaderParse(input), input)

\* Message::parse
MessageParse(input) ==
    IF Len(input) < 4 THEN ParseErr
    ELSE IF BitAnd(BeU16(Drop(input, 2)), 32768) = 0 THEN RequestParse(input)
    ELSE ResponseParse(input)

---------------------------------------------------------------------------
(* ServiceInfo                                                             *)

\* ServiceInfo::new
ServiceInfoNew(service_type, instance_name, hostname, ip_address, netmask, port) ==
    [service_type |-> LabelNew(service_type),
     instance_name |-> LabelPushFront(LabelNew(service_type), instance_name),
     hostname |-> LabelNew(hostname),
     ip_address |-> ip_address, netmask |-> netmask, port |-> port]

Answer(name, atype, aclass, ttl, record) ==
    [name |-> name, atype |-> atype, aclass |-> aclass, ttl |-> ttl, record |-> record]

\* ServiceInfo::ptr_answer: the class is IN whatever aclass is
ptr_answer(s, aclass) ==
    Answer(s.service_type, QT("PTR"), QT("IN"), <<0, 4500>>, RecPTR(s.instance_name))

\* ServiceInfo::srv_answer
srv_answer(s, aclass) ==
    Answer(s.instance_name, QT("SRV"), aclass, <<0, 120>>,
           RecSRV(0, 0, s.port, s.hostname))

\* ServiceInfo::txt_answer: the text is "\0"
txt_answer(s, aclass) ==
    Answer(s.instance_name, QT("TXT"), aclass, <<0, 120>>, RecTXT(<<0>>))

\* ServiceInfo::ip_answer
ip_answer(s, aclass) ==
    IF s.ip_address.fam = 4
    THEN Answer(s.hostname, QT("A"), aclass, <<0, 120>>, RecA(s.ip_address.o))
    ELSE Answer(s.hostname, QT("AAAA"), QT("IN"), <<0, 120>>, RecAAAA(s.ip_address.o))

\* as_answers that puts the SRV answer first
as_answers_srv_first(s, aclass) ==
    <<srv_answer(s, aclass), ptr_answer(s, aclass), txt_answer(s, aclass),
      ip_answer(s, aclass)>>

\* ServiceInfo::as_answers
as_answers(s, aclass) ==
    <<ptr_answer(s, aclass), srv_answer(s, aclass), txt_answer(s, aclass),
      ip_answer(s, aclass)>>

\* from_answers, step 1: a stub per PTR answer, while output has room
RECURSIVE FromAnswersPtr(_, _)
FromAnswersPtr(answers, output) ==
    IF answers = <<>> THEN output
    ELSE LET a == Head(answers)
             stub == [service_type |-> a.name, instance_name |-> a.record.name,
                      hostname |-> LabelDefault, ip_address |-> DEFAULT_ADDR,
                      netmask |-> DEFAULT_ADDR, port |-> 0]
         IN  FromAnswersPtr(Tail(answers),
                 IF a.record.t = "PTR" /\ Len(output) < SLEN THEN Append(output, stub)
                 ELSE output)

\* from_answers, step 2: each SRV answer fills the stubs of its instance
RECURSIVE FromAnswersSrv(_, _)
FromAnswersSrv(answers, output) ==
    IF answers = <<>> THEN output
    ELSE LET a == Head(answers)
         IN  FromAnswersSrv(Tail(answers),
                 IF a.record.t = "SRV"
                 THEN [i \in 1..Len(output) |->
                         IF LabelEq(output[i].instance_name, a.name)
                         THEN [output[i] EXCEPT !.hostname = a.record.name,
                                                !.port = a.record.port]
                         ELSE output[i]]
                 ELSE output)

\* from_answers, step 3: each A/AAAA answer fills the stubs of its host
RECURSIVE FromAnswersIp(_, _)
FromAnswersIp(answers, output) ==
    IF answers = <<>> THEN output
    ELSE LET a == Head(answers)
             ip == IF a.record.t = "A" THEN V4(a.record.address)
                   ELSE V6(a.record.address)
             mask == IF a.record.t = "A" THEN NETMASK_FULL_V4 ELSE NETMASK_FULL_V6
         IN  FromAnswersIp(Tail(answers),
                 IF a.record.t \in {"A", "AAAA"}
                 THEN [i \in 1..Len(output) |->
                         IF LabelEq(output[i].hostname, a.name)
                         THEN [output[i] EXCEPT !.ip_address = ip, !.netmask = mask]
                         ELSE output[i]]
                 ELSE output)

\* the closure of the final retain of from_answers
IsComplete(stub) ==
    /\ ~LabelIsEmpty(stub.service_type)
    /\ ~LabelIsEmpty(stub.instance_name)
    /\ ~LabelIsEmpty(stub.hostname)
    /\ stub.ip_address # DEFAULT_ADDR
    /\ stub.port # 0

\* ServiceInfo::from_answers
from_answers(answers, output) ==
    SelectSeq(FromAnswersIp(answers,
                  FromAnswersSrv(answers, FromAnswersPtr(answers, output))),
              IsComplete)

---------------------------------------------------------------------------
(* Server                                                                  *)

LocalIp(addr, mask) == [addr |-> addr, mask |-> mask]
SockAddr(ip, port) == [ip |-> ip, port |-> port]

\* is_same_network without the netmask
is_same_family(ip, netmask, other) == ip.fam = other.fam

\* is_same_network: u32 (V4) and u16 segments (V6) are compared octet by octet
is_same_network(ip, netmask, other) ==
    /\ ip.fam = netmask.fam
    /\ ip.fam = other.fam
    /\ \A i \in 1..Len(ip.o) :
          BitAnd(ip.o[i], netmask.o[i]) = BitAnd(other.o[i], netmask.o[i])

\* is_matching_service without the test for a handled service type
is_other_service(s1, svcs, qts) ==
    ~ \E i \in 1..Len(svcs) :
          /\ LabelEq(s1.instance_name, svcs[i].instance_name)
          /\ s1.ip_address = svcs[i].ip_address
          /\ s1.port = svcs[i].port

\* is_matching_service without the test for the server's own identity
is_handled_service(s1, svcs, qts) ==
    \/ \E i \in 1..Len(svcs) : LabelEq(s1.service_type, svcs[i].service_type)
    \/ \E i \in 1..Len(qts) : LabelEq(s1.service_type, qts[i].service_type)

\* is_matching_service
is_matching_service(s1, svcs, qts) ==
    LET handled_service ==
            \/ \E i \in 1..Len(svcs) : LabelEq(s1.service_type, svcs[i].service_type)
            \/ \E i \in 1..Len(qts) : LabelEq(s1.service_type, qts[i].service_type)
        is_self ==
            \E i \in 1..Len(svcs) :
                /\ LabelEq(s1.instance_name, svcs[i].instance_name)
                /\ s1.ip_address = svcs[i].ip_address
                /\ s1.port = svcs[i].port
    IN  handled_service /\ ~is_self

\* the loop of Server::new without the check for a local ip that is there
RECURSIVE DeriveLocalIpsAll(_, _)
DeriveLocalIpsAll(svcs, acc) ==
    IF svcs = <<>> THEN acc
    ELSE DeriveLocalIpsAll(Tail(svcs),
             Append(acc, LocalIp(Head(svcs).ip_address, Head(svcs).netmask)))

\* the loop of Server::new that derives local_ips from the services
RECURSIVE DeriveLocalIps(_, _)
DeriveLocalIps(svcs, acc) ==
    IF svcs = <<>> THEN acc
    ELSE LET loc == LocalIp(Head(svcs).ip_address, Head(svcs).netmask)
         IN  DeriveLocalIps(Tail(svcs),
                 IF \E i \in 1..Len(acc) : acc[i] = loc THEN acc ELSE Append(acc, loc))

\* poll_timeout that looks at the advertisements only
poll_timeout_advertise == next_advertise

\* poll_timeout that looks at the queries only
poll_timeout_query == next_query

\* Server::poll_timeout
poll_timeout ==
    IF services = <<>> THEN next_query ELSE Min(next_advertise, next_query)

\* Vec::extend of the bounded build: [panic, v]
Extend(v, items, cap) ==
    IF Len(v) + Len(items) > cap THEN [panic |-> TRUE, v |-> v]
    ELSE [panic |-> FALSE, v |-> v \o items]

\* Vec::push where the code drops the result: a full Vec ignores the value
PushOrDrop(v, item, cap) == IF Len(v) < cap THEN Append(v, item) ELSE v

---------------------------------------------------------------------------
(* Input and Output as the host sees them                                  *)

NoSock == SockAddr(DEFAULT_ADDR, 0)
NoCast == [t |-> "None", from |-> DEFAULT_ADDR, target |-> NoSock]
CastMulti(from) == [t |-> "Multi", from |-> from, target |-> NoSock]
CastUni(from, target) == [t |-> "Uni", from |-> from, target |-> target]

NoMsg == [kind |-> "None", id |-> 0, flags |-> 0, queries |-> <<>>, answers |-> <<>>]
NoService ==
    [service_type |-> LabelDefault, instance_name |-> LabelDefault,
     hostname |-> LabelDefault, ip_address |-> DEFAULT_ADDR, netmask |-> DEFAULT_ADDR,
     port |-> 0]

\* op: the code path that made the output; msg: the message it serialized;
\* bytes: &buffer[..n]; overflow: Writer::is_overflow when it returned
NoOut ==
    [kind |-> "None", n |-> 0, cast |-> NoCast, time |-> 0, remote |-> NoService,
     bytes |-> <<>>, overflow |-> FALSE, op |-> "none", msg |-> NoMsg]

\* Output::Timeout(t)
OutTimeout(t, op) == [NoOut EXCEPT !.kind = "Timeout", !.time = t, !.op = op]

\* Output::Remote(s)
OutRemote(s) == [NoOut EXCEPT !.kind = "Remote", !.remote = s, !.op = "response_in"]

\* a panic inside handle
OutPanic(op) == [NoOut EXCEPT !.kind = "Panic", !.op = op]

\* Output::Packet(buf.len(), cast), or the panic of the serializer
OutPacket(w, cast, op, msg) ==
    IF w.panic THEN OutPanic(op)
    ELSE [NoOut EXCEPT !.kind = "Packet", !.n = w.position, !.cast = cast,
                       !.bytes = BufferPrefix(w), !.overflow = w.overflow,
                       !.op = op, !.msg = msg]

NoInp == [kind |-> "None", now |-> 0, data |-> <<>>, from |-> NoSock, buflen |-> 0]
InpTimeout(now, buflen) == [NoInp EXCEPT !.kind = "Timeout", !.now = now, !.buflen = buflen]
InpPacket(data, from, buflen) ==
    [NoInp EXCEPT !.kind = "Packet", !.data = data, !.from = from, !.buflen = buflen]
InpQuery == [NoInp EXCEPT !.kind = "Query"]

---------------------------------------------------------------------------
(* The host: what it constructs the server with and what it feeds it       *)

\* lib.rs: the port of mDNS
MDNS_PORT == 5353

\* examples/myservice.rs: the output buffer of a host
BUFLEN == 2048

\* latest time the host feeds, and how late after a deadline it may wake
MaxTime == 20000
LateBy == 2500
\* the periods a host may sleep past a deadline
MaxPeriodsLate == 2
\* how long after a packet a host calls again, where not in the same millisecond
DrainDelay == 1
\* the time up to which the host is watched for the next packet of a kind
LiveHorizon == 20000
\* latest time the host feeds where the packets of the peers are many
NetMaxTime == 5000
\* largest of the short output buffers
MaxBuf == 21

\* "a.l", "b.l", "c.l": service types; "i", "j", "k": instances;
\* "h.l", "g.l", "r.l": host names
SVC1 == <<97, 46, 108>>
SVC2 == <<98, 46, 108>>
SVC3 == <<99, 46, 108>>
INST1 == <<105>>
INST2 == <<106>>
INST9 == <<107>>
HOST1 == <<104, 46, 108>>
HOST2 == <<103, 46, 108>>
HOST9 == <<114, 46, 108>>

MASK24 == V4(<<255, 255, 255, 0>>)
MASK64 == V6([i \in 1..16 |-> IF i <= 8 THEN 255 ELSE 0])
IP_A == V4(<<10, 0, 0, 1>>)
MASK16 == V4(<<255, 255, 0, 0>>)
IP_B == V4(<<10, 0, 1, 1>>)
IP_W == V4(<<10, 0, 9, 1>>)
IP_6 == V6([i \in 1..16 |-> IF i = 1 THEN 254 ELSE IF i = 2 THEN 128 ELSE IF i = 16 THEN 1 ELSE 0])

\* the local services
SvcA == ServiceInfoNew(SVC1, INST1, HOST1, IP_A, MASK24, 1234)
SvcB == ServiceInfoNew(SVC1, INST2, HOST2, IP_B, MASK24, 5678)
SvcC == ServiceInfoNew(SVC2, INST2, HOST1, IP_A, MASK24, 80)
Svc6 == ServiceInfoNew(SVC1, INST1, HOST1, IP_6, MASK64, 1234)
\* a service of another type on a wider subnet that contains SvcA's
SvcW == ServiceInfoNew(SVC2, INST2, HOST2, IP_W, MASK16, 80)

\* services of other hosts: of a type served here, of a type only queried
\* for, and of a type nobody here knows
Peer1 == ServiceInfoNew(SVC1, INST9, HOST9, V4(<<10, 0, 0, 9>>), NETMASK_FULL_V4, 99)
Peer3 == ServiceInfoNew(SVC3, INST9, HOST9, V4(<<10, 0, 0, 9>>), NETMASK_FULL_V4, 99)
Peer6 == ServiceInfoNew(SVC1, INST9, HOST9,
                        V6([i \in 1..16 |-> IF i = 1 THEN 254 ELSE 9]), NETMASK_FULL_V6, 99)

\* the services a server is constructed with
Configs ==
    {<<>>, <<SvcA>>, <<SvcA, SvcB>>, <<SvcA, SvcC>>, <<Svc6, SvcA>>, <<SvcW, SvcA>>}

\* the arguments of Server::query
QueryArgs ==
    {[service_type |-> SVC3, ip |-> IP_A, netmask |-> MASK24],
     [service_type |-> SVC1, ip |-> IP_B, netmask |-> MASK24]}

\* the peers that send packets
FromA == SockAddr(V4(<<10, 0, 0, 42>>), MDNS_PORT)
FromB == SockAddr(V4(<<10, 0, 1, 42>>), 40000)
FromX == SockAddr(V4(<<192, 168, 0, 7>>), MDNS_PORT)
From6 == SockAddr(V6([i \in 1..16 |-> IF i = 1 THEN 254 ELSE IF i = 2 THEN 128 ELSE 66]),
                  MDNS_PORT)

\* bytes of a request and of a response as a host with room would send them
RequestBytes(id, queries) ==
    BufferPrefix(RequestSerialize([kind |-> "Request", id |-> id, flags |-> StandardRequest,
                                   queries |-> queries, answers |-> <<>>],
                                  WriterNew(BUFLEN)))
ResponseBytes(id, answers) ==
    BufferPrefix(ResponseSerialize([kind |-> "Response", id |-> id,
                                    flags |-> StandardResponse,
                                    queries |-> <<>>, answers |-> answers],
                                   WriterNew(BUFLEN)))

Q(name, qtype, qclass) == [name |-> LabelNew(name), qtype |-> qtype, qclass |-> qclass]

\* a request for "a.l" and a response of Peer1, whole
GoodRequest == RequestBytes(7, <<Q(SVC1, QT("PTR"), QT("IN"))>>)
GoodResponse == ResponseBytes(0, as_answers(Peer1, QT("Multicast")))

\* the requests peers send, and from where: for "a.l" from every subnet and
\* from none, for "b.l", for an A record, of class multicast, of a class that
\* is unknown, with two questions, with the ids the server uses first and
\* with no question
RequestInputs ==
    {<<GoodRequest, FromA>>,
     <<GoodRequest, FromB>>,
     <<GoodRequest, FromX>>,
     <<GoodRequest, From6>>,
     <<RequestBytes(7, <<Q(SVC2, QT("PTR"), QT("IN"))>>), FromA>>,
     <<RequestBytes(7, <<Q(SVC1, QT("A"), QT("IN"))>>), FromA>>,
     <<RequestBytes(7, <<Q(SVC1, QT("PTR"), QT("Multicast"))>>), FromB>>,
     <<RequestBytes(7, <<Q(SVC3, QT("A"), QTUnknown(3)),
                         Q(SVC2, QT("PTR"), QT("IN"))>>), FromA>>,
     <<RequestBytes(7, <<Q(SVC2, QT("PTR"), QT("IN")),
                         Q(SVC1, QT("PTR"), QT("Multicast"))>>), FromA>>,
     <<RequestBytes(0, <<Q(SVC1, QT("PTR"), QT("IN"))>>), FromA>>,
     <<RequestBytes(1, <<Q(SVC1, QT("PTR"), QT("IN"))>>), FromA>>,
     <<RequestBytes(7, <<>>), FromA>>}

\* the responses peers send: of a peer of a type served here, of a peer of
\* a type only queried for, what SvcA advertises, and a PTR answer alone
ResponseInputs ==
    {<<GoodResponse, FromA>>,
     <<ResponseBytes(0, as_answers(Peer3, QT("Multicast"))), FromA>>,
     <<ResponseBytes(0, as_answers(SvcA, QT("Multicast"))), FromA>>,
     <<ResponseBytes(0, <<ptr_answer(Peer1, QT("IN"))>>), FromA>>}

\* packets Message::parse rejects: too short for a header, cut in a name,
\* cut in an answer, a label that is not UTF-8, a pointer past the end, a
\* pointer to itself, two pointers to each other, an answer of type ANY, an
\* A record of three bytes, an answer of the unknown type 99 and an AAAA
\* record of four bytes
MalformedInputs ==
    {<<<<1, 2, 3>>, FromA>>,
     <<Take(GoodRequest, Len(GoodRequest) - 6), FromA>>,
     <<Take(GoodResponse, Len(GoodResponse) - 3), FromA>>,
     <<Take(GoodRequest, 12) \o <<1, 255, 0, 0, 12, 0, 1>>, FromA>>,
     <<Take(GoodRequest, 12) \o <<192, 99, 0, 12, 0, 1>>, FromA>>,
     <<Take(GoodRequest, 12) \o <<192, 12, 0, 12, 0, 1>>, FromA>>,
     <<Take(GoodRequest, 12) \o <<192, 14, 192, 12, 0, 12, 0, 1>>, FromA>>,
     <<<<0, 0, 132, 0, 0, 0, 0, 1, 0, 0, 0, 0>> \o
           <<1, 97, 0, 0, 255, 0, 1, 0, 0, 0, 120, 0, 0>>, FromA>>,
     <<<<0, 0, 132, 0, 0, 0, 0, 1, 0, 0, 0, 0>> \o
           <<1, 97, 0, 0, 1, 0, 1, 0, 0, 0, 120, 0, 3, 10, 0, 0>>, FromA>>,
     <<<<0, 0, 132, 0, 0, 0, 0, 1, 0, 0, 0, 0>> \o
           <<1, 97, 0, 0, 99, 0, 1, 0, 0, 0, 120, 0, 0>>, FromA>>,
     <<<<0, 0, 132, 0, 0, 0, 0, 1, 0, 0, 0, 0>> \o
           <<1, 97, 0, 0, 28, 0, 1, 0, 0, 0, 120, 0, 4, 10, 0, 0, 1>>, FromA>>}

\* what arrives, and from whom
PacketInputs == RequestInputs \cup ResponseInputs \cup MalformedInputs

\* a request and a packet that is none
FewPackets == {<<GoodRequest, FromA>>, <<<<1, 2, 3>>, FromA>>}

\* the short output buffers: none, one byte, and the bytes of a request with
\* one question less three and less none
ShortBufs == {0, 1, MaxBuf - 3, MaxBuf}

\* the times a host feeds up to maxt: the time it fed last (it wakes early),
\* the deadline it was told, or that deadline passed by LateBy; never a time
\* before the last one
Late(t, maxt) == IF t <= maxt THEN t + LateBy ELSE t
TimeInputs(maxt) ==
    {last_now} \cup
    {t \in {poll_timeout, Late(poll_timeout, maxt)} : last_now <= t /\ t <= maxt}

\* how long a host that overslept is late: MaxPeriodsLate periods and more
Oversleep == MaxPeriodsLate * QUERY_INTERVAL + LateBy

---------------------------------------------------------------------------
(* Server: the operations                                                  *)

\* next_txid on a counter wider than 16 bits
next_txid_wide(x) == x + 1

\* Server::next_txid: wrapping_add(1) on a u16
next_txid_after(x) == (x + 1) % 65536

\* the `services.iter().filter(..)` of do_advertise and do_query
OnLocalIp(s, local) == s.ip_address = local.addr /\ s.netmask = local.mask

\* do_advertise that puts the answers of every service in every advertisement
RECURSIVE AdvertiseAnswersAll(_, _, _)
AdvertiseAnswersAll(svcs, local, acc) ==
    IF svcs = <<>> \/ acc.panic THEN acc
    ELSE AdvertiseAnswersAll(Tail(svcs), local,
             Extend(acc.v, as_answers(Head(svcs), QT("Multicast")), ALEN))

\* do_advertise: the answers, extended service by service: [panic, v]
RECURSIVE AdvertiseAnswers(_, _, _)
AdvertiseAnswers(svcs, local, acc) ==
    IF svcs = <<>> \/ acc.panic THEN acc
    ELSE AdvertiseAnswers(Tail(svcs), local,
             IF OnLocalIp(Head(svcs), local)
             THEN Extend(acc.v, as_answers(Head(svcs), QT("Multicast")), ALEN)
             ELSE acc)

\* Server::do_advertise
do_advertise(buflen, local) ==
    LET a == AdvertiseAnswers(services, local, [panic |-> FALSE, v |-> <<>>])
        response == [kind |-> "Response", id |-> 0, flags |-> StandardResponse,
                     queries |-> <<>>, answers |-> a.v]
    IN  IF a.panic THEN OutPanic("advertise")
        ELSE OutPacket(ResponseSerialize(response, WriterNew(buflen)),
                       CastMulti(local.addr), "advertise", response)

\* do_query that asks for addresses
AddressQuery(name) == [name |-> name, qtype |-> QT("A"), qclass |-> QT("IN")]

\* do_query: the question for a service type
PtrQuery(name) == [name |-> name, qtype |-> QT("PTR"), qclass |-> QT("IN")]

\* do_query: one question per service on the local ip
RECURSIVE QueryServices(_, _, _)
QueryServices(svcs, local, acc) ==
    IF svcs = <<>> THEN acc
    ELSE QueryServices(Tail(svcs), local,
             IF OnLocalIp(Head(svcs), local)
             THEN PushOrDrop(acc, PtrQuery(Head(svcs).service_type), QLEN)
             ELSE acc)

\* do_query that asks for every query target from every local ip
RECURSIVE QueryTargetsAll(_, _, _)
QueryTargetsAll(qts, local, acc) ==
    IF qts = <<>> THEN acc
    ELSE QueryTargetsAll(Tail(qts), local,
             PushOrDrop(acc, PtrQuery(Head(qts).service_type), QLEN))

\* do_query: one question per query target of the local ip
RECURSIVE QueryTargets(_, _, _)
QueryTargets(qts, local, acc) ==
    IF qts = <<>> THEN acc
    ELSE QueryTargets(Tail(qts), local,
             IF Head(qts).local_ip = local
             THEN PushOrDrop(acc, PtrQuery(Head(qts).service_type), QLEN)
             ELSE acc)

\* Server::do_query, with id the value next_txid() returned
do_query(buflen, local, id) ==
    LET request == [kind |-> "Request", id |-> id, flags |-> StandardRequest,
                    queries |-> QueryTargets(query_targets, local,
                                             QueryServices(services, local, <<>>)),
                    answers |-> <<>>]
    IN  OutPacket(RequestSerialize(request, WriterNew(buflen)),
                  CastMulti(local.addr), "query", request)

\* handle_timeout with deadlines that are counted from time 0
AdvanceRoundFixed(idx, deadline, now, interval) ==
    IF idx + 1 = Len(local_ips) THEN <<0, TimeAdd(0, interval)>>
    ELSE <<idx + 1, deadline>>

\* handle_timeout that leaves the deadline where it is
AdvanceRoundStay(idx, deadline, now, interval) ==
    <<IF idx + 1 = Len(local_ips) THEN 0 ELSE idx + 1, deadline>>

\* handle_timeout with the deadline counted from the deadline that was due
AdvanceRoundCatchUp(idx, deadline, now, interval) ==
    IF idx + 1 = Len(local_ips) THEN <<0, TimeAdd(deadline, interval)>>
    ELSE <<idx + 1, deadline>>

\* handle_timeout with the deadline moved after every packet of a round
AdvanceRoundEager(idx, deadline, now, interval) ==
    <<IF idx + 1 = Len(local_ips) THEN 0 ELSE idx + 1, TimeAdd(now, interval)>>

\* handle_timeout that compares the index with the length before it adds 1
AdvanceRoundLate(idx, deadline, now, interval) ==
    IF idx = Len(local_ips) THEN <<0, TimeAdd(now, interval)>>
    ELSE <<idx + 1, deadline>>

\* handle_timeout: the index and the deadline after a packet of a round,
\* <<idx, deadline>>
AdvanceRound(idx, deadline, now, interval) ==
    IF idx + 1 = Len(local_ips) THEN <<0, TimeAdd(now, interval)>>
    ELSE <<idx + 1, deadline>>

\* handle_timeout that sends the query that is due before the advertisement
handle_timeout_query_first(now, buflen) ==
    /\ last_now' = now
    /\ inp' = InpTimeout(now, buflen)
    /\ UNCHANGED <<services, query_targets, local_ips>>
    /\ IF services # <<>> /\ now >= next_advertise /\ ~(local_ips # <<>> /\ now >= next_query)
       THEN /\ out' = IF next_advertise_idx >= Len(local_ips) THEN OutPanic("advertise")
                      ELSE do_advertise(buflen, local_ips[next_advertise_idx + 1])
            /\ IF out'.kind = "Panic"
               THEN UNCHANGED <<next_advertise_idx, next_advertise>>
               ELSE LET r == AdvanceRound(next_advertise_idx, next_advertise, now,
                                          ADVERTISE_INTERVAL)
                    IN  next_advertise_idx' = r[1] /\ next_advertise' = r[2]
            /\ UNCHANGED <<next_query, next_query_idx, txid_query, next_txid>>
       ELSE IF local_ips # <<>> /\ now >= next_query
       THEN IF next_query_idx >= Len(local_ips)
            THEN /\ out' = OutPanic("query")
                 /\ UNCHANGED <<next_advertise, next_advertise_idx, next_query,
                                next_query_idx, txid_query, next_txid>>
            ELSE /\ out' = do_query(buflen, local_ips[next_query_idx + 1], next_txid)
                 /\ next_txid' = next_txid_after(next_txid)
                 /\ txid_query' = next_txid
                 /\ IF out'.kind = "Panic"
                    THEN UNCHANGED <<next_query_idx, next_query>>
                    ELSE LET r == AdvanceRound(next_query_idx, next_query, now,
                                               QUERY_INTERVAL)
                         IN  next_query_idx' = r[1] /\ next_query' = r[2]
                 /\ UNCHANGED <<next_advertise, next_advertise_idx>>
       ELSE /\ out' = OutTimeout(poll_timeout, "timeout")
            /\ UNCHANGED <<next_advertise, next_advertise_idx, next_query,
                           next_query_idx, txid_query, next_txid>>

\* Server::handle_timeout (a panic leaves what was assigned before it)
handle_timeout(now, buflen) ==
    /\ last_now' = now
    /\ inp' = InpTimeout(now, buflen)
    /\ UNCHANGED <<services, query_targets, local_ips>>
    /\ IF services # <<>> /\ now >= next_advertise
       THEN /\ out' = IF next_advertise_idx >= Len(local_ips) THEN OutPanic("advertise")
                      ELSE do_advertise(buflen, local_ips[next_advertise_idx + 1])
            /\ IF out'.kind = "Panic"
               THEN UNCHANGED <<next_advertise_idx, next_advertise>>
               ELSE LET r == AdvanceRound(next_advertise_idx, next_advertise, now,
                                          ADVERTISE_INTERVAL)
                    IN  next_advertise_idx' = r[1] /\ next_advertise' = r[2]
            /\ UNCHANGED <<next_query, next_query_idx, txid_query, next_txid>>
       ELSE IF local_ips # <<>> /\ now >= next_query
       THEN IF next_query_idx >= Len(local_ips)
            THEN /\ out' = OutPanic("query")
                 /\ UNCHANGED <<next_advertise, next_advertise_idx, next_query,
                                next_query_idx, txid_query, next_txid>>
            ELSE /\ out' = do_query(buflen, local_ips[next_query_idx + 1], next_txid)
                 /\ next_txid' = next_txid_after(next_txid)
                 /\ txid_query' = next_txid
                 /\ IF out'.kind = "Panic"
                    THEN UNCHANGED <<next_query_idx, next_query>>
                    ELSE LET r == AdvanceRound(next_query_idx, next_query, now,
                                               QUERY_INTERVAL)
                         IN  next_query_idx' = r[1] /\ next_query' = r[2]
                 /\ UNCHANGED <<next_advertise, next_advertise_idx>>
       ELSE /\ out' = OutTimeout(poll_timeout, "timeout")
            /\ UNCHANGED <<next_advertise, next_advertise_idx, next_query,
                           next_query_idx, txid_query, next_txid>>

\* handle_request: the answers, query by query and service by service
RECURSIVE RequestAnswersOne(_, _, _, _, _)
RequestAnswersOne(query, svcs, from_ip, qclass, acc) ==
    IF svcs = <<>> \/ acc.panic THEN acc
    ELSE RequestAnswersOne(query, Tail(svcs), from_ip, qclass,
             IF /\ query.qtype = QT("PTR")
                /\ LabelEq(query.name, Head(svcs).service_type)
                /\ is_same_network(Head(svcs).ip_address, Head(svcs).netmask, from_ip)
             THEN Extend(acc.v, as_answers(Head(svcs), qclass), ALEN)
             ELSE acc)

RECURSIVE RequestAnswers(_, _, _, _)
RequestAnswers(queries, from_ip, qclass, acc) ==
    IF queries = <<>> \/ acc.panic THEN acc
    ELSE RequestAnswers(Tail(queries), from_ip, qclass,
             RequestAnswersOne(Head(queries), services, from_ip, qclass, acc))

\* handle_request: `local_ips.iter().find(..)`, 0 for None
FindSendFrom(from_ip) ==
    IF \E i \in 1..Len(local_ips) :
            is_same_network(local_ips[i].addr, local_ips[i].mask, from_ip)
    THEN CHOOSE i \in 1..Len(local_ips) :
            /\ is_same_network(local_ips[i].addr, local_ips[i].mask, from_ip)
            /\ \A j \in 1..(i - 1) :
                  ~is_same_network(local_ips[j].addr, local_ips[j].mask, from_ip)
    ELSE 0

\* handle_request that multicasts for the cache-flush class only
ResponseCastFlush(qclass, send_from, from) ==
    IF qclass = QT("Multicast") THEN CastMulti(send_from) ELSE CastUni(send_from, from)

\* handle_request: `match qclass`
ResponseCast(qclass, send_from, from) ==
    IF qclass = QT("IN") THEN CastUni(send_from, from) ELSE CastMulti(send_from)

\* handle_request that echoes the PTR questions only
ResponseToPtrOnly(request, answers) ==
    LET is_ptr(q) == q.qtype = QT("PTR")
    IN  [kind |-> "Response", id |-> request.id, flags |-> StandardResponse,
         queries |-> SelectSeq(request.queries, is_ptr), answers |-> answers]

\* handle_request: `let response = Response { .. }`
ResponseTo(request, answers) ==
    [kind |-> "Response", id |-> request.id, flags |-> StandardResponse,
     queries |-> request.queries, answers |-> answers]

\* handle_request without the check of the id
IsSelfEchoNever(request) == FALSE

\* handle_request: `request.id == self.txid_query`
IsSelfEcho(request) == request.id = txid_query

\* Server::handle_request
handle_request(request, from, buflen) ==
    IF request.queries = <<>> THEN OutTimeout(poll_timeout, "no_queries")
    ELSE IF IsSelfEcho(request) THEN OutTimeout(poll_timeout, "self_echo")
    ELSE
    LET qclass == request.queries[1].qclass
        a == RequestAnswers(request.queries, from.ip, qclass,
                            [panic |-> FALSE, v |-> <<>>])
        response == ResponseTo(request, a.v)
        w == ResponseSerialize(response, WriterNew(buflen))
        i == FindSendFrom(from.ip)
    IN  IF a.panic THEN OutPanic("response")
        ELSE IF a.v = <<>> THEN OutTimeout(poll_timeout, "no_answers")
        ELSE IF w.panic \/ i = 0 THEN OutPanic("response")
        ELSE OutPacket(w, ResponseCast(qclass, local_ips[i].addr, from), "response",
                       response)

\* handle_response that reports the last of the services it found
handle_response_last(response, from, buflen) ==
    LET keep(s) == is_matching_service(s, services, query_targets)
        found == SelectSeq(from_answers(response.answers, <<>>), keep)
    IN  IF found = <<>> THEN OutTimeout(poll_timeout, "no_remote")
        ELSE OutRemote(found[Len(found)])

\* Server::handle_response
handle_response(response, from, buflen) ==
    LET keep(s) == is_matching_service(s, services, query_targets)
        found == SelectSeq(from_answers(response.answers, <<>>), keep)
    IN  IF found = <<>> THEN OutTimeout(poll_timeout, "no_remote")
        ELSE OutRemote(found[1])

\* handle_packet that unwraps what Message::parse gave
MatchMessageUnwrap(m, from, buflen) ==
    IF ~m.ok THEN OutPanic("parse_error")
    ELSE IF m.v.kind = "Request" THEN handle_request(m.v, from, buflen)
    ELSE handle_response(m.v, from, buflen)

\* handle_packet: the `match` on what Message::parse gave
MatchMessage(m, from, buflen) ==
    IF ~m.ok THEN OutTimeout(poll_timeout, "parse_error")
    ELSE IF m.v.kind = "Request" THEN handle_request(m.v, from, buflen)
    ELSE handle_response(m.v, from, buflen)

\* handle_packet that takes the id of what it parsed for the id of a query
handle_packet_stamp(data, from, buflen) ==
    LET m == MessageParse(data)
    IN  /\ inp' = InpPacket(data, from, buflen)
        /\ out' = MatchMessage(m, from, buflen)
        /\ txid_query' = IF m.ok THEN m.v.id ELSE txid_query
        /\ UNCHANGED <<last_now, services, query_targets, local_ips, next_advertise,
                       next_advertise_idx, next_query, next_query_idx, next_txid>>

\* Server::handle_packet
handle_packet(data, from, buflen) ==
    /\ inp' = InpPacket(data, from, buflen)
    /\ out' = MatchMessage(MessageParse(data), from, buflen)
    /\ UNCHANGED server

\* Server::query that leaves next_query where it is
queryLater(service_type, ip, netmask) ==
    LET local_ip == LocalIp(ip, netmask)
    IN  /\ query_targets' = PushOrDrop(query_targets,
                                [service_type |-> LabelNew(service_type),
                                 local_ip |-> local_ip], SLEN)
        /\ local_ips' = IF \E i \in 1..Len(local_ips) : local_ips[i] = local_ip
                        THEN local_ips
                        ELSE PushOrDrop(local_ips, local_ip, SLEN)
        /\ inp' = InpQuery
        /\ out' = NoOut
        /\ UNCHANGED <<last_now, services, next_advertise, next_advertise_idx,
                       next_query, next_query_idx, txid_query, next_txid>>

\* Server::query
query(service_type, ip, netmask) ==
    LET local_ip == LocalIp(ip, netmask)
    IN  /\ query_targets' = PushOrDrop(query_targets,
                                [service_type |-> LabelNew(service_type),
                                 local_ip |-> local_ip], SLEN)
        /\ local_ips' = IF \E i \in 1..Len(local_ips) : local_ips[i] = local_ip
                        THEN local_ips
                        ELSE PushOrDrop(local_ips, local_ip, SLEN)
        /\ next_query' = last_now
        /\ inp' = InpQuery
        /\ out' = NoOut
        /\ UNCHANGED <<last_now, services, next_advertise, next_advertise_idx,
                       next_query_idx, txid_query, next_txid>>

\* Server::new with the first deadlines of a server that has services,
\* whatever the iterator yields
ServerNewScheduled(svcs) ==
    /\ last_now = 0
    /\ services = svcs
    /\ query_targets = <<>>
    /\ local_ips = DeriveLocalIps(svcs, <<>>)
    /\ next_advertise = 3000
    /\ next_advertise_idx = 0
    /\ next_query = 5000
    /\ next_query_idx = 0
    /\ txid_query = 0
    /\ next_txid = 1

\* Server::new, with the services the iterator yields
ServerNew(svcs) ==
    /\ last_now = 0
    /\ services = svcs
    /\ query_targets = <<>>
    /\ local_ips = DeriveLocalIps(svcs, <<>>)
    /\ next_advertise = (IF svcs # <<>> THEN 3000 ELSE U64_MAX)
    /\ next_advertise_idx = 0
    /\ next_query = (IF svcs # <<>> THEN 5000 ELSE U64_MAX)
    /\ next_query_idx = 0
    /\ txid_query = 0
    /\ next_txid = 1

---------------------------------------------------------------------------
(* The state machine                                                       *)

Init ==
    /\ \E svcs \in Configs : ServerNew(svcs)
    /\ inp = NoInp
    /\ out = NoOut

\* after a panic the server is gone
Alive == out.kind # "Panic"

\* handle(Input::Timeout(now), buffer)
HostTimeout(maxt, bufs) ==
    /\ Alive
    /\ \E now \in TimeInputs(maxt), b \in bufs : handle_timeout(now, b)

\* handle(Input::Timeout(now), buffer) of a host that slept past the
\* deadline it was told by Oversleep
HostOversleep(maxt, bufs) ==
    /\ Alive
    /\ poll_timeout <= maxt
    /\ last_now <= poll_timeout + Oversleep
    /\ \E b \in bufs : handle_timeout(poll_timeout + Oversleep, b)

\* the host of lib.rs and examples/myservice.rs after Output::Packet: it
\* sends the packet and calls handle(Input::Timeout(now), ..) again
HostDrain(maxt, bufs) ==
    /\ Alive
    /\ out.kind = "Packet"
    /\ \E d \in {0, DrainDelay}, b \in bufs :
          /\ last_now + d <= maxt
          /\ handle_timeout(last_now + d, b)

\* the same host after Output::Timeout(t): it calls again at t; where it was
\* told no time, or a time that has passed, it calls at once
HostOnTime(maxt, bufs) ==
    /\ Alive
    /\ out.kind # "Packet"
    /\ LET now == IF out.kind = "Timeout" THEN Max(last_now, out.time) ELSE last_now
       IN  /\ now <= maxt
           /\ \E b \in bufs : handle_timeout(now, b)

\* handle(Input::Packet(data, from), buffer) with a packet of a peer
HostPacket(pkts, bufs) ==
    /\ Alive
    /\ \E p \in pkts, b \in bufs : handle_packet(p[1], p[2], b)

\* handle(Input::Packet(..)) with the packet the server sent last, as the
\* multicast group hands it back
HostLoopback(bufs) ==
    /\ Alive
    /\ out.kind = "Packet"
    /\ \E b \in bufs : handle_packet(out.bytes, SockAddr(out.cast.from, MDNS_PORT), b)

\* query(service_type, ip, netmask), up to maxq times
HostQuery(maxq) ==
    /\ Alive
    /\ Len(query_targets) < maxq
    /\ \E q \in QueryArgs : query(q.service_type, q.ip, q.netmask)

\* a host over time, with few packets
Next ==
    \/ HostTimeout(MaxTime, {BUFLEN})
    \/ HostOversleep(MaxTime, {BUFLEN})
    \/ HostPacket(FewPackets, {BUFLEN})
    \/ HostLoopback({BUFLEN})
    \/ HostQuery(1)

Spec == Init /\ [][Next]_vars

\* the time the host that keeps calling is followed to
LiveMaxTime == LiveHorizon + QUERY_INTERVAL + LateBy

\* a host that keeps calling: after every packet, and at every deadline
HostCalls == HostDrain(LiveMaxTime, {BUFLEN}) \/ HostOnTime(LiveMaxTime, {BUFLEN})

NextLive ==
    \/ HostDrain(LiveMaxTime, {BUFLEN})
    \/ HostOnTime(LiveMaxTime, {BUFLEN})
    \/ HostQuery(1)

\* ENABLED HostCalls: handle_timeout takes every time and every buffer, so
\* the host can call whenever the call it has to make is not after LiveMaxTime
HostCallsEnabled ==
    /\ Alive
    /\ IF out.kind = "Timeout" THEN Max(last_now, out.time) <= LiveMaxTime
       ELSE last_now <= LiveMaxTime

\* WF_vars(HostCalls), with ENABLED <<HostCalls>>_vars written out: the host
\* does not stop calling while it has a call to make
HostKeepsCalling == []<>(~HostCallsEnabled) \/ []<><<HostCalls>>_vars

SpecLive == Init /\ [][NextLive]_vars /\ HostKeepsCalling

\* Server::new(core::iter::empty())
InitEmpty ==
    /\ ServerNew(<<>>)
    /\ inp = NoInp
    /\ out = NoOut

\* the times of a host that calls whenever it likes
WakeTimes == {0, DrainDelay, 3000, QUERY_INTERVAL, MaxTime, U64_MAX}

\* handle(Input::Timeout(now), buffer) at a time of the host's choice, before
\* or after the time of the last call
HostWake(times, bufs) ==
    /\ Alive
    /\ \E now \in times, b \in bufs : handle_timeout(now, b)

\* the host of a server without services that registers no query target
NextEmpty ==
    \/ HostWake(WakeTimes, {BUFLEN})
    \/ HostPacket(PacketInputs, {BUFLEN})

SpecEmpty == InitEmpty /\ [][NextEmpty]_vars

\* Message::serialize
MessageSerialize(m, w) ==
    IF m.kind = "Request" THEN RequestSerialize(m, w) ELSE ResponseSerialize(m, w)

\* the services whose answers the messages of a round trip are built from:
\* host names under the domain, and bare ones, one of them an instance name
RoundServices ==
    {ServiceInfoNew(t, i, h, ip, MASK24, 80) :
        t \in {SVC1, SVC2}, i \in {INST1, INST2}, h \in {HOST1, INST1, <<104>>},
        ip \in {IP_A, IP_6}}

\* advertisements of one service and of two, and responses to a question
RoundResponses ==
    {[kind |-> "Response", id |-> 0, flags |-> StandardResponse, queries |-> <<>>,
      answers |-> as_answers(s, c)] : s \in RoundServices, c \in {QT("IN"), QT("Multicast")}}
    \cup
    {[kind |-> "Response", id |-> 0, flags |-> StandardResponse, queries |-> <<>>,
      answers |-> as_answers(s, QT("Multicast")) \o as_answers(SvcC, QT("Multicast"))] :
        s \in RoundServices}
    \cup
    {[kind |-> "Response", id |-> 7, flags |-> StandardResponse,
      queries |-> <<Q(SVC1, QT("PTR"), c)>>,
      answers |-> as_answers(s, c)] : s \in RoundServices, c \in {QT("IN"), QTUnknown(3)}}

\* requests of one question and of two
RoundRequests ==
    {[kind |-> "Request", id |-> id, flags |-> StandardRequest,
      queries |-> qs, answers |-> <<>>] :
        id \in {1, 65535},
        qs \in {<<Q(SVC1, QT("PTR"), QT("IN"))>>,
                <<Q(SVC1, QT("PTR"), QT("IN")), Q(SVC2, QT("PTR"), QT("Multicast"))>>,
                <<Q(HOST1, QT("A"), QT("IN")), Q(HOST1, QT("AAAA"), QTUnknown(3))>>,
                <<Q(SVC1, QT("SRV"), QT("IN")), Q(SVC1, QT("TXT"), QT("IN")),
                  Q(SVC1, QTUnknown(99), QT("IN")), Q(<<108>>, QT("Any"), QT("IN"))>>}}

RoundMessages == RoundResponses \cup RoundRequests

\* a message is serialized into a buffer of BUFLEN bytes and the bytes
\* written are handed to Message::parse
RoundTrip(msgs) ==
    /\ \E m \in msgs :
          /\ out' = OutPacket(MessageSerialize(m, WriterNew(BUFLEN)), NoCast, "serialize", m)
          /\ inp' = InpPacket(out'.bytes, NoSock, BUFLEN)
    /\ UNCHANGED server

NextRound == RoundTrip(RoundMessages)

\* Message::serialize and Message::parse, apart from the server
SpecRound == InitEmpty /\ [][NextRound]_vars

\* the header of a request with one question
OneQuestion == <<0, 0, 0, 0, 0, 1, 0, 0, 0, 0, 0, 0>>

\* the bytes the names of the parsed packets are made of: the end of a name,
\* a length, a letter, the mark of a pointer and the offsets 12 and 14
NameBytes == {0, 1, 97, 192, 12, 14}

\* the longest name of bytes of NameBytes, and the longest chain of pointers
MaxTail == 4
MaxChain == 6

\* all byte strings of length n over NameBytes
RECURSIVE Tails(_)
Tails(n) ==
    IF n = 0 THEN {<<>>}
    ELSE {Append(t, b) : t \in Tails(n - 1), b \in NameBytes}

\* a question whose name is a chain of k pointers that ends at the name "a":
\* the first pointer at offset 12, the others from offset 18 on
RECURSIVE ChainTail(_, _)
ChainTail(k, at) ==
    IF k = 0 THEN <<1, 97, 0>> ELSE <<192, at + 2>> \o ChainTail(k - 1, at + 2)
ChainBytes(k) ==
    IF k = 0 THEN OneQuestion \o <<1, 97, 0, 0, 12, 0, 1>>
    ELSE OneQuestion \o <<192, 18, 0, 12, 0, 1>> \o ChainTail(k - 1, 18)

\* the packets of the tests parse_recursive_label and parse_recursive_label2
RecursiveLabelTests ==
    {<<6, 0, 0, 0, 1, 1, 162, 8, 0, 1, 0, 10, 1, 14, 1, 1, 1, 1, 64, 64, 64, 64, 64, 64,
       85, 0, 1, 0, 10, 1, 14, 64, 64, 64, 40, 64, 64, 64, 64, 64, 64, 64, 64, 64, 208,
       64, 64, 64, 64, 64, 64, 64, 64, 64, 64, 64, 64, 64, 64, 64, 64, 64, 64, 64, 64,
       64, 1, 0, 0, 0, 64, 64>>,
     <<14, 10, 0, 142, 10, 78, 44, 10, 0, 192, 192, 192, 192, 64, 64, 64, 40, 64, 96, 64,
       64, 64, 64, 64, 64, 64, 208, 64, 64, 64, 64, 64, 64, 64, 64, 64, 64, 64, 173, 173,
       173, 173, 173, 173, 64, 64, 64, 64, 64, 64, 64, 64, 64, 64, 64, 64, 64, 64, 1, 0,
       0, 1, 64, 64, 64, 14, 10, 16, 241, 8, 211, 0, 0, 0, 0, 0, 0, 0, 64, 64, 64, 64, 0,
       0, 0, 0>>}

\* the byte strings handed to Message::parse: every name of up to MaxTail
\* bytes of NameBytes as the name of a question, the chains of up to MaxChain
\* pointers, and the packets of the tests
ParseInputs ==
    {OneQuestion \o t \o <<0, 12, 0, 1>> : t \in UNION {Tails(n) : n \in 1..MaxTail}}
    \cup {ChainBytes(k) : k \in 0..MaxChain}
    \cup RecursiveLabelTests

\* a byte string is at hand, nothing was parsed
InitParse ==
    /\ ServerNew(<<>>)
    /\ inp \in {InpPacket(d, NoSock, 0) : d \in ParseInputs}
    /\ out = NoOut

\* what Message::parse returned: Ok with the message, or Err
ParseOut(r) ==
    IF r.ok THEN [NoOut EXCEPT !.kind = "Parsed", !.op = "parse", !.msg = r.v]
    ELSE [NoOut EXCEPT !.kind = "ParseError", !.op = "parse"]

\* Message::parse(data)
HostParse ==
    /\ out.kind = "None"
    /\ out' = ParseOut(MessageParse(inp.data))
    /\ UNCHANGED <<inp, server>>

NextParse == HostParse

\* Message::parse on its own
SpecParse == InitParse /\ [][NextParse]_vars

\* names on the wire: "a.l" at 0, a pointer to it at 5, "a" and a pointer to
\* "l" at 7, the one segment "a.l" at 11, "A.l" at 16
LabelWire ==
    <<1, 97, 1, 108, 0, 192, 0, 1, 97, 192, 2, 3, 97, 46, 108, 0, 1, 65, 1, 108, 0>>
ParsedAt(offset) == LabelParse(Drop(LabelWire, offset), LabelWire).v

\* labels of every representation, each with the name it spells
LabelTests ==
    {[label |-> LabelNew(<<97, 46, 108>>), name |-> <<97, 46, 108>>],
     [label |-> LabelPushBack(LabelNew(<<97>>), <<108>>), name |-> <<97, 46, 108>>],
     [label |-> LabelPushFront(LabelNew(<<108>>), <<97>>), name |-> <<97, 46, 108>>],
     [label |-> ParsedAt(0), name |-> <<97, 46, 108>>],
     [label |-> ParsedAt(5), name |-> <<97, 46, 108>>],
     [label |-> ParsedAt(7), name |-> <<97, 46, 108>>],
     [label |-> ParsedAt(11), name |-> <<97, 46, 108>>],
     [label |-> ParsedAt(16), name |-> <<65, 46, 108>>],
     [label |-> LabelNew(<<65, 46, 108>>), name |-> <<65, 46, 108>>],
     [label |-> LabelNew(<<108, 46, 97>>), name |-> <<108, 46, 97>>],
     [label |-> LabelNew(<<97>>), name |-> <<97>>],
     [label |-> ParsedAt(2), name |-> <<108>>],
     [label |-> LabelPushBack(LabelNew(<<97, 46, 108>>), <<97>>),
      name |-> <<97, 46, 108, 46, 97>>],
     [label |-> LabelDefault, name |-> <<>>]}

\* the strings a label is compared with
StrTests ==
    {<<97, 46, 108>>, <<65, 46, 108>>, <<97>>, <<108>>, <<97, 46, 108, 46>>,
     <<97, 108>>, <<97, 46, 108, 46, 97>>, <<>>}

\* two labels and a string
InitLabel ==
    /\ ServerNew(<<>>)
    /\ inp \in {[NoInp EXCEPT !.kind = "Labels", !.data = <<x, y, s>>] :
                   x \in LabelTests, y \in LabelTests, s \in StrTests}
    /\ out = NoOut

\* `a == b` of two labels and `a == s` of a label and a &str
HostCompare ==
    /\ out.kind = "None"
    /\ out' = [NoOut EXCEPT !.kind = "Compared", !.op = "eq",
                 !.msg = [eq |-> LabelEq(inp.data[1].label, inp.data[2].label),
                          eq_str |-> LabelEqStr(inp.data[1].label, inp.data[3])]]
    /\ UNCHANGED <<inp, server>>

NextLabel == HostCompare

\* the equality of labels on its own
SpecLabel == InitLabel /\ [][NextLabel]_vars

\* a request with n questions: for "a.l", and then for "c.l"
QuestionsBytes(n) ==
    RequestBytes(7, [i \in 1..n |-> IF i = 1 THEN Q(SVC1, QT("PTR"), QT("IN"))
                                    ELSE Q(SVC3, QT("PTR"), QT("IN"))])

\* a response with n answers: those of Peer1, then those of Peer3, then TXT
AnswersBytes(n) ==
    ResponseBytes(0, Take(as_answers(Peer1, QT("Multicast"))
                          \o as_answers(Peer3, QT("Multicast"))
                          \o [i \in 1..n |-> txt_answer(Peer3, QT("Multicast"))], n))

\* a request with a question for "a.l" and a question whose name is in k
\* parts, each but the last ending in a pointer to the next
RECURSIVE PartsTail(_, _)
PartsTail(k, at) ==
    IF k = 1 THEN <<1, 101, 0>> ELSE <<1, 98, 192, at + 4>> \o PartsTail(k - 1, at + 4)
PartsBytes(k) ==
    <<0, 7, 0, 0, 0, 2, 0, 0, 0, 0, 0, 0>> \o <<1, 97, 1, 108, 0, 0, 12, 0, 1>>
    \o (IF k = 1 THEN <<1, 101, 0, 0, 12, 0, 1>>
        ELSE <<1, 97, 192, 29, 0, 12, 0, 1>> \o PartsTail(k - 1, 29))

\* the request for "a.l" with a header that declares n answers
DeclaresAnswers(n) == [GoodRequest EXCEPT ![8] = n]

\* packets at the capacities of the server and one above each of them
AtCapacity == {QuestionsBytes(QLEN), AnswersBytes(ALEN), PartsBytes(LLEN)}
AboveCapacity == {QuestionsBytes(QLEN + 1), AnswersBytes(ALEN + 1), PartsBytes(LLEN + 1)}
CapacityInputs ==
    {<<d, FromA>> : d \in AtCapacity \cup AboveCapacity \cup {DeclaresAnswers(ALEN + 1)}}

\* a host in its first seconds, with packets at and above the capacities
NextCap ==
    \/ HostTimeout(NetMaxTime, {BUFLEN})
    \/ HostPacket(CapacityInputs, {BUFLEN})
    \/ HostQuery(1)

SpecCap == Init /\ [][NextCap]_vars

\* a PTR answer of a peer that sends no SRV answer
OrphanPtr(type) ==
    Answer(LabelNew(type), QT("PTR"), QT("IN"), <<0, 4500>>,
           RecPTR(LabelPushFront(LabelNew(type), INST2)))

Peer2 == ServiceInfoNew(SVC2, INST9, HOST9, V4(<<10, 0, 0, 9>>), NETMASK_FULL_V4, 99)
PeerNoPort == ServiceInfoNew(SVC3, INST9, HOST9, V4(<<10, 0, 0, 9>>), NETMASK_FULL_V4, 0)
PeerNoIp == ServiceInfoNew(SVC3, INST9, HOST9, DEFAULT_ADDR, NETMASK_FULL_V4, 99)

\* the answers of a response: of one service in the order of as_answers and
\* in the reverse of it, with an IPv6 address, of two and of three services
\* of one host, without the address, without the SRV, with port 0, with the
\* address 0.0.0.0, and after one and two PTR answers of other peers
AssemblyAnswers ==
    LET M == QT("Multicast")
    IN  {as_answers(Peer3, M),
         <<ip_answer(Peer3, M), txt_answer(Peer3, M), srv_answer(Peer3, M),
           ptr_answer(Peer3, M)>>,
         as_answers(Peer6, M),
         as_answers(Peer3, M) \o as_answers(Peer1, M),
         <<ip_answer(Peer3, M), srv_answer(Peer1, M), srv_answer(Peer2, M),
           srv_answer(Peer3, M), ptr_answer(Peer1, M), ptr_answer(Peer2, M),
           ptr_answer(Peer3, M)>>,
         <<ptr_answer(Peer3, M), srv_answer(Peer3, M), txt_answer(Peer3, M)>>,
         <<ptr_answer(Peer3, M), ip_answer(Peer3, M)>>,
         as_answers(PeerNoPort, M),
         as_answers(PeerNoIp, M),
         <<OrphanPtr(SVC1)>> \o as_answers(Peer3, M),
         <<OrphanPtr(SVC1), OrphanPtr(SVC2)>> \o as_answers(Peer3, M)}

AssemblyInputs == {<<ResponseBytes(0, a), FromA>> : a \in AssemblyAnswers}

\* a host in its first seconds, with the responses of peers
NextAsm ==
    \/ HostTimeout(NetMaxTime, {BUFLEN})
    \/ HostPacket(AssemblyInputs, {BUFLEN})
    \/ HostQuery(1)

SpecAsm == Init /\ [][NextAsm]_vars

\* a server as Server::new returned it, or one that has sent 65534 or 65535
\* query packets: the host called query("c.l", 10.0.0.1, /24) before each
\* handle(Timeout(0)), the targets are full since the second call, the
\* advertisement of time 0 is out, and the last packet was a query
InitWrap ==
    \/ Init
    \/ /\ services \in {<<>>, <<SvcA>>}
       /\ query_targets = [i \in 1..SLEN |-> [service_type |-> LabelNew(SVC3),
                                               local_ip |-> LocalIp(IP_A, MASK24)]]
       /\ local_ips = <<LocalIp(IP_A, MASK24)>>
       /\ last_now = 0
       /\ next_advertise = (IF services = <<>> THEN U64_MAX ELSE ADVERTISE_INTERVAL)
       /\ next_advertise_idx = 0
       /\ next_query = QUERY_INTERVAL
       /\ next_query_idx = 0
       /\ txid_query \in {65534, 65535}
       /\ next_txid = (txid_query + 1) % 65536
       /\ inp = InpTimeout(0, BUFLEN)
       /\ out = do_query(BUFLEN, LocalIp(IP_A, MASK24), txid_query)

\* a host in its first seconds and one that has queried for long
NextWrap ==
    \/ HostTimeout(MaxTime, {BUFLEN})
    \/ HostPacket(FewPackets, {BUFLEN})
    \/ HostQuery(1)

SpecWrap == InitWrap /\ [][NextWrap]_vars

\* the query packets of the first rounds as the multicast group hands them
\* back: a question for a type served here, the ids 1 and 2, from the
\* addresses of the server itself
EchoInputs ==
    {<<RequestBytes(id, <<Q(type, QT("PTR"), QT("IN"))>>), SockAddr(ip, MDNS_PORT)>> :
        id \in {1, 2}, type \in {SVC1, SVC2}, ip \in {IP_A, IP_B}}

\* a host in its first seconds that hears its own queries, at once and late
NextEcho ==
    \/ HostTimeout(NetMaxTime, {BUFLEN})
    \/ HostPacket(EchoInputs, {BUFLEN})
    \/ HostLoopback({BUFLEN})

SpecEcho == Init /\ [][NextEcho]_vars

\* a host in its first seconds that calls query() as often as there is room
\* for targets, before, within and after the rounds
NextIdx ==
    \/ HostTimeout(NetMaxTime, {BUFLEN})
    \/ HostPacket(FewPackets, {BUFLEN})
    \/ HostLoopback({BUFLEN})
    \/ HostQuery(SLEN)

SpecIdx == Init /\ [][NextIdx]_vars

\* a response that carries two peers, in both orders
TwoPeers(p, q) ==
    ResponseBytes(0, as_answers(p, QT("Multicast")) \o as_answers(q, QT("Multicast")))

\* requests, responses and a packet that does not parse, together
MixedPackets ==
    {<<GoodRequest, FromA>>,
     <<RequestBytes(7, <<Q(SVC1, QT("PTR"), QT("Multicast"))>>), FromB>>,
     <<GoodResponse, FromA>>,
     <<TwoPeers(Peer1, Peer3), FromA>>,
     <<TwoPeers(Peer3, Peer1), FromA>>,
     <<<<1, 2, 3>>, FromA>>}

\* a host in its first seconds that gets requests and responses
NextMixed ==
    \/ HostTimeout(NetMaxTime, {BUFLEN})
    \/ HostPacket(MixedPackets, {BUFLEN})
    \/ HostLoopback({BUFLEN})
    \/ HostQuery(1)

SpecMixed == Init /\ [][NextMixed]_vars

\* the lengths of the buffers a Writer is made on, and the number of entries
\* of the lookup the calls of push_label are followed to
MaxCap == 3
MaxMemo == 2

\* a call of a method of the Writer, as the input of a step
WriterCall(op, data) == [NoInp EXCEPT !.kind = "Writer", !.data = <<op, data>>]

\* the Writer after a call, and the Reservation that is open (len 0: none)
WriterState(w, r) == [NoOut EXCEPT !.kind = "Writer", !.msg = [w |-> w, r |-> r]]

\* Writer::new(buffer) on buffers of 0 to MaxCap bytes
InitWriter ==
    /\ ServerNew(<<>>)
    /\ inp = WriterCall("new", <<>>)
    /\ out \in {WriterState(WriterNew(cap), [start |-> 0, len |-> 0]) : cap \in 0..MaxCap}

\* w.write(data)
HostWrite ==
    /\ out.kind = "Writer"
    /\ \E data \in {<<7>>, <<8, 9>>} :
          /\ inp' = WriterCall("write", data)
          /\ out' = WriterState(WriterWrite(out.msg.w, data), out.msg.r)
    /\ UNCHANGED server

\* w.write_u8(b)
HostWriteU8 ==
    /\ out.kind = "Writer"
    /\ inp' = WriterCall("write_u8", <<5>>)
    /\ out' = WriterState(WriterWriteU8(out.msg.w, 5), out.msg.r)
    /\ UNCHANGED server

\* let r = w.reserve(len)
HostReserve ==
    /\ out.kind = "Writer"
    /\ \E len \in 1..2 :
          /\ inp' = WriterCall("reserve", <<len>>)
          /\ out' = WriterState(WriterReserve(out.msg.w, len), Reservation(out.msg.w, len))
    /\ UNCHANGED server

\* w.write_reservation(r, data) with data of the length of r; r is moved
HostWriteReservation ==
    /\ out.kind = "Writer"
    /\ out.msg.r.len > 0
    /\ inp' = WriterCall("write_reservation", [i \in 1..out.msg.r.len |-> 3])
    /\ out' = WriterState(WriteReservation(out.msg.w, out.msg.r, inp'.data[2]),
                          [start |-> 0, len |-> 0])
    /\ UNCHANGED server

\* w.push_label(label, 0)
HostPushLabel ==
    /\ out.kind = "Writer"
    /\ Len(out.msg.w.lookup) < MaxMemo
    /\ inp' = WriterCall("push_label", <<97>>)
    /\ out' = WriterState(PushLabel(out.msg.w, <<97>>, 0), out.msg.r)
    /\ UNCHANGED server

NextWriter ==
    \/ HostWrite
    \/ HostWriteU8
    \/ HostReserve
    \/ HostWriteReservation
    \/ HostPushLabel

\* the Writer on its own, on short buffers
SpecWriter == InitWriter /\ [][NextWriter]_vars

\* a host in its first seconds, with the requests of the peers
NextNet ==
    \/ HostTimeout(NetMaxTime, {BUFLEN})
    \/ HostPacket(RequestInputs, {BUFLEN})
    \/ HostLoopback({BUFLEN})
    \/ HostQuery(1)

SpecNet == Init /\ [][NextNet]_vars

\* a host in its first seconds, with the responses of the peers and with
\* what is no message
NextIn ==
    \/ HostTimeout(NetMaxTime, {BUFLEN})
    \/ HostPacket(ResponseInputs \cup MalformedInputs, {BUFLEN})
    \/ HostLoopback({BUFLEN})
    \/ HostQuery(1)

SpecIn == Init /\ [][NextIn]_vars

\* a host in its first seconds whose output buffers are short
NextBuf ==
    \/ HostTimeout(NetMaxTime, ShortBufs)
    \/ HostPacket({<<GoodRequest, FromA>>}, ShortBufs)
    \/ HostLoopback(ShortBufs)
    \/ HostQuery(1)

SpecBuf == Init /\ [][NextBuf]_vars

---------------------------------------------------------------------------
(* Claims                                                                  *)

\* C1, one step: a Timeout input while an advertisement is due gives one
\* advertisement packet, multicast from local_ips[next_advertise_idx]; the
\* index moves on by one and next_advertise is kept, until the packet of the
\* last local ip, which sets the index to 0 and next_advertise to
\* now + 15000.  A Timeout input while no advertisement but a query is due
\* does the same with the query index, next_query and 19000.  No other
\* input moves an index or next_advertise, so a round visits
\* local_ips[0], .., local_ips[K-1] in this order, each once.
C1_Step ==
    LET now == inp'.now
        K == Len(local_ips)
    IN  /\ inp'.kind # "Timeout" =>
              UNCHANGED <<next_advertise, next_advertise_idx, next_query_idx>>
        /\ (inp'.kind = "Timeout" /\ services # <<>> /\ now >= next_advertise) =>
              /\ out'.kind = "Packet"
              /\ out'.op = "advertise"
              /\ out'.cast = CastMulti(local_ips[next_advertise_idx + 1].addr)
              /\ UNCHANGED <<next_query, next_query_idx>>
              /\ IF next_advertise_idx + 1 < K
                 THEN /\ next_advertise_idx' = next_advertise_idx + 1
                      /\ next_advertise' = next_advertise
                 ELSE /\ next_advertise_idx' = 0
                      /\ next_advertise' = now + 15000
        /\ (/\ inp'.kind = "Timeout"
            /\ ~(services # <<>> /\ now >= next_advertise)
            /\ local_ips # <<>>
            /\ now >= next_query) =>
              /\ out'.kind = "Packet"
              /\ out'.op = "query"
              /\ out'.cast = CastMulti(local_ips[next_query_idx + 1].addr)
              /\ UNCHANGED <<next_advertise, next_advertise_idx>>
              /\ IF next_query_idx + 1 < K
                 THEN /\ next_query_idx' = next_query_idx + 1
                      /\ next_query' = next_query
                 ELSE /\ next_query_idx' = 0
                      /\ next_query' = now + 19000

\* C1: the multihome fan-out round, as a property of every step
C1_FanOutRound == [][C1_Step]_vars

\* C1: the services on 10.0.0.1/24 and 10.0.1.1/24 polled at t = 3000 have
\* sent from 10.0.0.1 and then from 10.0.1.1, and next_advertise is 18000
C1_Witness ==
    /\ services = <<SvcA, SvcB>>
    /\ inp.kind = "Timeout"
    /\ last_now = 3000
    /\ out.kind = "Packet"
    /\ out.op = "advertise"
    /\ out.cast = CastMulti(IP_B)
    /\ next_advertise_idx = 0
    /\ next_advertise = 18000

\* m, what Message::parse makes of a packet, is a request
IsRequest(m) == m.ok /\ m.v.kind = "Request"

\* C2 for a step that handles a packet with the message m
C2_Holds(m) ==
    (IsRequest(m) /\ m.v.id = txid_query) =>
        /\ out'.kind = "Timeout"
        /\ out'.time = poll_timeout

\* C2, one step: a request whose id is txid_query gets Timeout(poll_timeout())
\* and no packet, whatever it asks and wherever it comes from
C2_Step == inp'.kind = "Packet" => C2_Holds(MessageParse(inp'.data))

\* C2: self-echo suppression, as a property of every step
C2_SelfEcho == [][C2_Step]_vars

\* C2: after the first query (id 1) a peer on the subnet of SvcA asks for
\* "a.l" with id 1, which SvcA would answer, and gets no packet
C2_Witness ==
    /\ inp.kind = "Packet"
    /\ inp.data = RequestBytes(1, <<Q(SVC1, QT("PTR"), QT("IN"))>>)
    /\ inp.from = FromA
    /\ txid_query = 1
    /\ services = <<SvcA>>
    /\ is_same_network(SvcA.ip_address, SvcA.netmask, inp.from.ip)
    /\ out.kind = "Timeout"

\* the range of a sequence
Range(seq) == {seq[i] : i \in 1..Len(seq)}

\* (ip & mask) == (x & mask), ip, mask and x of one address family
InSubnet(ip, mask, x) ==
    /\ ip.fam = mask.fam
    /\ ip.fam = x.fam
    /\ \A i \in 1..Len(ip.o) : BitAnd(ip.o[i], mask.o[i]) = BitAnd(x.o[i], mask.o[i])

\* some question of the request m is a PTR question for the type of s, and
\* the request comes from the subnet of s
Qualifies(s, m) ==
    /\ \E q \in Range(m.v.queries) :
          q.qtype = QT("PTR") /\ LabelIter(q.name) = LabelIter(s.service_type)
    /\ InSubnet(s.ip_address, s.netmask, inp'.from.ip)

\* m is a request the server does not take for its own: it has a question
\* and its id is not txid_query
IsForeignRequest(m) == IsRequest(m) /\ m.v.queries # <<>> /\ m.v.id # txid_query

\* the answers the request m asks of s: as_answers in the class of the first
\* question
AnswersOf(s, m) == Range(as_answers(s, m.v.queries[1].qclass))

\* C3 for a step that handles a packet with the message m
C3_Holds(m) ==
    IsForeignRequest(m) =>
        IF \E s \in Range(services) : Qualifies(s, m)
        THEN /\ out'.kind = "Packet"
             /\ out'.op = "response"
             /\ \A s \in Range(services) :
                   Qualifies(s, m) <=> AnswersOf(s, m) \subseteq Range(out'.msg.answers)
             /\ \A a \in Range(out'.msg.answers) :
                   \E s \in Range(services) : Qualifies(s, m) /\ a \in AnswersOf(s, m)
        ELSE /\ out'.kind = "Timeout"
             /\ out'.time = poll_timeout

\* C3, one step: the response to a request holds the answers of a service
\* exactly if the service qualifies, and holds no other answer; a request no
\* service qualifies for gets Timeout(poll_timeout()) and no packet
C3_Step == inp'.kind = "Packet" => C3_Holds(MessageParse(inp'.data))

\* C3: subnet-scoped answering, as a property of every step
C3_SubnetScoped == [][C3_Step]_vars

\* C3: of two services of type "a.l" on 10.0.0.1/24 and 10.0.1.1/24, a
\* question for "a.l" from 10.0.1.42 is answered with the second alone
C3_Witness ==
    /\ services = <<SvcA, SvcB>>
    /\ inp.kind = "Packet"
    /\ inp.from = FromB
    /\ out.kind = "Packet"
    /\ out.op = "response"
    /\ Range(out.msg.answers) = Range(as_answers(SvcB, QT("Multicast")))
    /\ Range(as_answers(SvcA, QT("Multicast"))) \cap Range(out.msg.answers) = {}

----------------------------------------------------------------------------
(* C4: discovery filter                                                    *)

\* the advertisements the server emits in its present state, one per local ip
OwnAdvertisements ==
    {do_advertise(BUFLEN, local_ips[i]).bytes : i \in 1..Len(local_ips)}

\* s is put together from a PTR, an SRV and an address answer of answers
Assembled(s, answers) ==
    \E p \in Range(answers), sr \in Range(answers), a \in Range(answers) :
        /\ p.record.t = "PTR"
        /\ LabelIter(p.name) = LabelIter(s.service_type)
        /\ LabelIter(p.record.name) = LabelIter(s.instance_name)
        /\ sr.record.t = "SRV"
        /\ LabelIter(sr.name) = LabelIter(s.instance_name)
        /\ LabelIter(sr.record.name) = LabelIter(s.hostname)
        /\ sr.record.port = s.port
        /\ a.record.t \in {"A", "AAAA"}
        /\ LabelIter(a.name) = LabelIter(s.hostname)
        /\ a.record.address = s.ip_address.o
        /\ (a.record.t = "A") <=> (s.ip_address.fam = 4)

\* the type of s is the type of a local service or of a query target
TypeWanted(s) ==
    \/ \E l \in Range(services) : LabelIter(l.service_type) = LabelIter(s.service_type)
    \/ \E q \in Range(query_targets) :
          LabelIter(q.service_type) = LabelIter(s.service_type)

\* a local service has the instance name, the ip and the port of s
IsLocalIdentity(s) ==
    \E l \in Range(services) :
        /\ LabelIter(l.instance_name) = LabelIter(s.instance_name)
        /\ l.ip_address = s.ip_address
        /\ l.port = s.port

\* C4 for a step that handles a packet with the message m and returns Remote
C4_Holds(m) ==
    /\ m.ok
    /\ m.v.kind = "Response"
    /\ Assembled(out'.remote, m.v.answers)
    /\ TypeWanted(out'.remote)
    /\ ~IsLocalIdentity(out'.remote)

\* C4, one step: Remote(s) is returned only for a Response packet, with s
\* assembled from the answers of that packet, of a type the server serves or
\* asks for, and not the identity of a local service; an advertisement of
\* the server itself, fed back, never gives Remote
C4_Step ==
    /\ out'.kind = "Remote" =>
          inp'.kind = "Packet" /\ C4_Holds(MessageParse(inp'.data))
    /\ (inp'.kind = "Packet" /\ inp'.data \in OwnAdvertisements) =>
          out'.kind # "Remote"

\* C4: discovery filter, as a property of every step
C4_DiscoveryFilter == [][C4_Step]_vars

\* a peer's instance of a type the server serves itself is reported
C4_Witness ==
    /\ out.kind = "Remote"
    /\ services = <<SvcA>>
    /\ query_targets = <<>>
    /\ inp.data = GoodResponse
    /\ out.remote.port = 99
    /\ out.remote.ip_address = V4(<<10, 0, 0, 9>>)

----------------------------------------------------------------------------
(* C5: the time of Output::Timeout                                         *)

\* C5: every Output::Timeout(t) the server returns has t later than the
\* server's present time last_now, for a Timeout input and for a Packet input
C5_TimeoutInFuture == out.kind = "Timeout" => out.time > last_now

----------------------------------------------------------------------------
(* C6: no catch-up                                                         *)

\* C6, one step of handle(Timeout(now)): an advertisement is emitted only
\* at or after next_advertise and a query only at or after next_query; the
\* packet that completes a round (the index is back at 0) moves the deadline
\* to now + 15000 resp. now + 19000, however long ago the deadline was, so
\* the next round is a whole period after now
C6_Step ==
    inp'.kind = "Timeout" =>
        /\ (out'.kind = "Packet" /\ out'.op = "advertise") =>
              /\ inp'.now >= next_advertise
              /\ IF next_advertise_idx' = 0
                 THEN next_advertise' = inp'.now + 15000
                 ELSE next_advertise' = next_advertise
        /\ (out'.kind = "Packet" /\ out'.op = "query") =>
              /\ inp'.now >= next_query
              /\ IF next_query_idx' = 0
                 THEN next_query' = inp'.now + 19000
                 ELSE next_query' = next_query
        /\ out'.kind = "Packet" => out'.op \in {"advertise", "query"}

\* C6: no catch-up, as a property of every step
C6_NoCatchUp == [][C6_Step]_vars

\* a host with one service that was told 3000 and woke more than two
\* periods later: one advertisement, and the next is due a period from now
C6_Witness ==
    /\ services = <<SvcA>>
    /\ inp.kind = "Timeout"
    /\ last_now = 3000 + Oversleep
    /\ last_now > 3000 + 2 * ADVERTISE_INTERVAL
    /\ out.kind = "Packet"
    /\ out.op = "advertise"
    /\ next_advertise = last_now + ADVERTISE_INTERVAL
    /\ next_query = 5000

----------------------------------------------------------------------------
(* C7: periodic operation                                                  *)

\* the addresses a local ip can have
LiveIps == {IP_A, IP_B, IP_6, IP_W}

\* ip is the address of a local ip
HasLocalIp(ip) == \E i \in 1..Len(local_ips) : local_ips[i].addr = ip

\* a server with a service and the local ip, at a time up to LiveHorizon
Watched(ip) == services # <<>> /\ HasLocalIp(ip) /\ last_now <= LiveHorizon

\* the last output is a packet of the kind op sent from ip
Sent(op, ip) == out.kind = "Packet" /\ out.op = op /\ out.cast = CastMulti(ip)

\* C7: under a host that calls handle(Timeout(now)) again after every packet
\* and at every deadline it is told, a server with a service emits, from
\* every state up to LiveHorizon on, one more advertisement from every local
\* ip and one more query from every local ip
C7_Periodic ==
    \A ip \in LiveIps :
        /\ Watched(ip) ~> Sent("advertise", ip)
        /\ Watched(ip) ~> Sent("query", ip)

\* the second service's interface sends a query again a period after the
\* first round
C7_Witness ==
    /\ services = <<SvcA, SvcB>>
    /\ Sent("query", IP_B)
    /\ last_now >= 5000 + QUERY_INTERVAL
    /\ next_advertise > last_now

----------------------------------------------------------------------------
(* C8: parse errors                                                        *)

\* C8 for a step that handles a packet Message::parse made m of
C8_Holds(m) ==
    /\ <<inp'.data, inp'.from>> \in MalformedInputs => ~m.ok
    /\ ~m.ok =>
          /\ out'.kind = "Timeout"
          /\ out'.time = poll_timeout
          /\ UNCHANGED server

\* C8, one step: every packet of MalformedInputs fails to parse, and for a
\* packet that fails to parse handle returns Timeout(poll_timeout()), does
\* not panic, and leaves every field of the server as it was
C8_Step == inp'.kind = "Packet" => C8_Holds(MessageParse(inp'.data))

\* C8: parse errors are recovered locally, as a property of every step
C8_ParseErrors == [][C8_Step]_vars

\* a name with a pointer to itself arrives between the advertisement at 3000
\* and the query at 5000: the answer is Timeout(5000)
C8_Witness ==
    /\ services = <<SvcA>>
    /\ inp.kind = "Packet"
    /\ inp.data = Take(GoodRequest, 12) \o <<192, 12, 0, 12, 0, 1>>
    /\ last_now = 3000
    /\ next_advertise = 18000
    /\ out.kind = "Timeout"
    /\ out.op = "parse_error"
    /\ out.time = 5000

----------------------------------------------------------------------------
(* C9: an output buffer that is too small                                  *)

\* the bytes the message msg takes in a buffer that is large enough
FullLength(msg) ==
    IF msg.kind = "Request" THEN RequestSerialize(msg, WriterNew(BUFLEN)).position
    ELSE ResponseSerialize(msg, WriterNew(BUFLEN)).position

\* C9: whatever the length of the buffer given to handle, handle does not
\* fail; the packet it returns has n <= the length of the buffer and no byte
\* beyond it, and the writer's overflow flag is set where the message does
\* not fit
C9_SendCapacity ==
    inp.kind \in {"Timeout", "Packet"} =>
        /\ out.kind # "Panic"
        /\ out.kind = "Packet" =>
              /\ out.n <= inp.buflen
              /\ Len(out.bytes) <= inp.buflen
              /\ FullLength(out.msg) > inp.buflen => out.overflow

----------------------------------------------------------------------------
(* C10: response routing                                                   *)

\* local_ips[i] is the first local ip whose subnet contains the address x
FirstLocalIpFor(i, x) ==
    /\ InSubnet(local_ips[i].addr, local_ips[i].mask, x)
    /\ \A j \in 1..(i - 1) : ~InSubnet(local_ips[j].addr, local_ips[j].mask, x)

\* C10 for a step that answers the request m with a packet
C10_Holds(m) ==
    /\ IsRequest(m)
    /\ m.v.queries # <<>>
    /\ \E i \in 1..Len(local_ips) :
          /\ FirstLocalIpFor(i, inp'.from.ip)
          /\ out'.cast.from = local_ips[i].addr
    /\ IF m.v.queries[1].qclass = QClassFromU16(1)
       THEN out'.cast.t = "Uni" /\ out'.cast.target = inp'.from
       ELSE out'.cast.t = "Multi"

\* C10, one step: the packet that answers a request goes by unicast to the
\* sender of the request exactly if the class of the first question is IN,
\* and by multicast for every other class; it leaves from the first local
\* ip, in the order of local_ips, whose subnet contains the sender
C10_Step ==
    (inp'.kind = "Packet" /\ out'.kind = "Packet") =>
        C10_Holds(MessageParse(inp'.data))

\* C10: response routing, as a property of every step
C10_Routing == [][C10_Step]_vars

\* a request whose first question has the unknown class 3 and whose second
\* question, of class IN, is the one that is answered: multicast from
\* 10.0.0.1
C10_Witness ==
    /\ services = <<SvcA, SvcC>>
    /\ inp.kind = "Packet"
    /\ inp.from = FromA
    /\ out.kind = "Packet"
    /\ out.op = "response"
    /\ out.msg.queries[1].qclass = QTUnknown(3)
    /\ out.msg.queries[2].qclass = QT("IN")
    /\ out.cast = CastMulti(IP_A)

----------------------------------------------------------------------------
(* C11: the question section of a response                                 *)

\* two parsed questions are the same: name by segments, type and class
SameQuery(a, b) ==
    /\ LabelIter(a.name) = LabelIter(b.name)
    /\ a.qtype = b.qtype
    /\ a.qclass = b.qclass

\* C11 for a step that answers the request m with the packet that parses as r
C11_Holds(m, r) ==
    /\ IsRequest(m)
    /\ r.ok
    /\ r.v.kind = "Response"
    /\ r.v.id = m.v.id
    /\ r.v.flags = StandardResponse
    /\ Len(r.v.queries) = Len(m.v.queries)
    /\ \A i \in 1..Len(m.v.queries) : SameQuery(r.v.queries[i], m.v.queries[i])

\* C11, one step: the bytes of a packet that answers a request parse as a
\* Response with the id of the request, the flags standard_response and the
\* questions of the request, all of them, in their order
C11_Step ==
    (inp'.kind = "Packet" /\ out'.kind = "Packet") =>
        C11_Holds(MessageParse(inp'.data), MessageParse(out'.bytes))

\* C11: the question section of a response, as a property of every step
C11_Questions == [][C11_Step]_vars

\* the response to a request of two questions, the first neither PTR nor of
\* a served type, holds both
C11_Witness ==
    /\ services = <<SvcA, SvcC>>
    /\ inp.kind = "Packet"
    /\ out.kind = "Packet"
    /\ out.op = "response"
    /\ Len(MessageParse(out.bytes).v.queries) = 2
    /\ MessageParse(out.bytes).v.queries[1].qtype = QT("A")
    /\ MessageParse(out.bytes).v.queries[1].qclass = QTUnknown(3)
    /\ MessageParse(out.bytes).v.id = 7

----------------------------------------------------------------------------
(* C12: the first query after Server::query                                *)

\* the target the last call of query() registered (HostQuery calls it while
\* query_targets has room)
LastTarget == query_targets[Len(query_targets)]

\* the message r asks for the pointers of the service type of t
AsksFor(r, t) ==
    /\ r.ok
    /\ r.v.kind = "Request"
    /\ \E i \in 1..Len(r.v.queries) :
          /\ r.v.queries[i].qtype = QT("PTR")
          /\ LabelIter(r.v.queries[i].name) = LabelIter(t.service_type)

\* the output o, with bytes that parse as r, is a query sent from local that
\* holds the question of the target t where t is of that local ip
QueryFrom(o, r, local, t) ==
    /\ o.kind = "Packet"
    /\ o.op = "query"
    /\ o.cast = CastMulti(local.addr)
    /\ r.ok
    /\ r.v.kind = "Request"
    /\ t.local_ip = local => AsksFor(r, t)

\* C12 as stated, one step: the handle(Timeout) that follows query() returns
\* the PTR query for the service type, sent from the ip of the call
C12_AnyState_Step ==
    (inp.kind = "Query" /\ inp'.kind = "Timeout") =>
        /\ out'.kind = "Packet"
        /\ out'.cast = CastMulti(LastTarget.local_ip.addr)
        /\ AsksFor(MessageParse(out'.bytes), LastTarget)

C12_Step ==
    (inp.kind = "Query" /\ inp'.kind = "Timeout" /\ inp'.now >= last_now) =>
        IF services # <<>> /\ inp'.now >= next_advertise
        THEN out'.kind = "Packet" /\ out'.op = "advertise"
        ELSE QueryFrom(out', MessageParse(out'.bytes),
                       local_ips[next_query_idx + 1], LastTarget)

----------------------------------------------------------------------------
(* C13: a server without services                                          *)

\* the message r is a request with questions for pointers only
IsPtrRequest(r) ==
    /\ IsRequest(r)
    /\ Len(r.v.queries) > 0
    /\ \A i \in 1..Len(r.v.queries) : r.v.queries[i].qtype = QT("PTR")

\* the packets of a server without services: queries, returned for a
\* Timeout, that parse as requests for pointers
C13_OnlyQueries(r) ==
    out'.kind = "Packet" =>
        /\ inp'.kind = "Timeout"
        /\ out'.op = "query"
        /\ IsPtrRequest(r)

\* after the packet that ends a query round, a handle(Timeout(now)) less than
\* a query interval later returns Timeout
C13_QuietAfterRound ==
    (/\ out.kind = "Packet"
     /\ next_query_idx = 0
     /\ inp'.kind = "Timeout"
     /\ inp'.now < TimeAdd(last_now, QUERY_INTERVAL)) =>
        /\ out'.kind = "Timeout"
        /\ out'.time = TimeAdd(last_now, QUERY_INTERVAL)

\* C13, one step of a server constructed without services, whatever the
\* query targets: the step returns no advertisement and no response, the only
\* packets are PTR queries, and after a query round the next handle(Timeout)
\* before next_query returns Timeout
C13_Step ==
    services = <<>> =>
        /\ C13_OnlyQueries(MessageParse(out'.bytes))
        /\ C13_QuietAfterRound

\* C13: discovery-only mode, as a property of every step
C13_DiscoveryOnly == [][C13_Step]_vars

\* a server without services and with a query target was sent a request for
\* the type it looks for, from its subnet, and returned Timeout
C13_Witness ==
    /\ services = <<>>
    /\ Len(query_targets) = 1
    /\ LastTarget.local_ip.addr = IP_B
    /\ next_txid = 2
    /\ inp.kind = "Packet"
    /\ inp.from = FromB
    /\ AsksFor(MessageParse(inp.data), LastTarget)
    /\ out.kind = "Timeout"
    /\ out.time = next_query

----------------------------------------------------------------------------
(* C14: the empty server                                                   *)

\* C14: a server without services and without query targets has returned
\* Output::Timeout for whatever it was handed, a Timeout of any time or a
\* packet of any kind, and neither Packet nor Remote
C14_EmptyServer ==
    (services = <<>> /\ query_targets = <<>> /\ inp.kind # "None") =>
        out.kind = "Timeout"

\* the empty server was handed the response of a complete service of a peer
\* after a Timeout at the end of time, and returned Timeout
C14_Witness ==
    /\ services = <<>>
    /\ query_targets = <<>>
    /\ last_now = U64_MAX
    /\ inp.kind = "Packet"
    /\ inp.data = GoodResponse
    /\ out.kind = "Timeout"

----------------------------------------------------------------------------
(* C15: waking early                                                       *)

\* C15, one step: handle(Timeout(now)) with now before next_advertise and
\* before next_query returns no packet but Timeout(min(next_advertise,
\* next_query)) and changes last_now alone, so that the deadlines and the
\* positions in the rounds are those of before, however often it is called
C15_Step ==
    (/\ inp'.kind = "Timeout"
     /\ inp'.now < next_advertise
     /\ inp'.now < next_query) =>
        /\ out'.kind = "Timeout"
        /\ out'.time = Min(next_advertise, next_query)
        /\ last_now' = inp'.now
        /\ UNCHANGED <<services, query_targets, local_ips, next_advertise,
                       next_advertise_idx, next_query, next_query_idx,
                       txid_query, next_txid>>

\* C15: waking early, as a property of every step
C15_EarlyWake == [][C15_Step]_vars

\* a server with services, woken between its first advertisement and its
\* first query, waits for the query
C15_Witness ==
    /\ services # <<>>
    /\ inp.kind = "Timeout"
    /\ out.kind = "Timeout"
    /\ last_now = 3000
    /\ next_advertise = TimeAdd(3000, ADVERTISE_INTERVAL)
    /\ next_query = 5000
    /\ out.time = next_query

----------------------------------------------------------------------------
(* C16: the deadlines under a clock that does not go back                  *)

\* the step is a call of handle at a time not before the last
IsHandleCall ==
    \/ inp'.kind = "Packet"
    \/ inp'.kind = "Timeout" /\ inp'.now >= last_now

\* the packet of the step ended a round of advertisements or of queries
EndsRound(op, idx) == out'.kind = "Packet" /\ out'.op = op /\ idx = 0

\* C16, one step: a call of handle, with Timeout values that do not
\* decrease, lowers neither next_advertise nor next_query nor poll_timeout(),
\* and a firing that ends a round sets its deadline to a value strictly
\* greater than the one it had
C16_Step ==
    IsHandleCall =>
        /\ next_advertise' >= next_advertise
        /\ next_query' >= next_query
        /\ poll_timeout' >= poll_timeout
        /\ EndsRound("advertise", next_advertise_idx') => next_advertise' > next_advertise
        /\ EndsRound("query", next_query_idx') => next_query' > next_query

\* C16: the deadlines never decrease, as a property of every step
C16_Monotone == [][C16_Step]_vars

\* a server with services and no query target has ended a round of each kind
\* and waits for its second advertisement
C16_Witness ==
    /\ services # <<>>
    /\ query_targets = <<>>
    /\ out.kind = "Packet"
    /\ out.op = "query"
    /\ next_query_idx = 0
    /\ next_advertise > 3000
    /\ next_query = TimeAdd(last_now, QUERY_INTERVAL)
    /\ poll_timeout = next_advertise
    /\ poll_timeout > 5000

----------------------------------------------------------------------------
(* C17: poll_timeout is the earlier of the two deadlines                   *)

\* C17: in every reachable state poll_timeout() is min(next_advertise,
\* next_query), with services and without, and so is the deadline of the
\* Output::Timeout the server returned last
C17_PollTimeoutIsMin ==
    /\ poll_timeout = Min(next_advertise, next_query)
    /\ out.kind = "Timeout" => out.time = Min(next_advertise, next_query)

\* a server without services, where poll_timeout() reads next_query alone,
\* has sent its query and returned the deadline of the next
C17_Witness ==
    /\ services = <<>>
    /\ query_targets # <<>>
    /\ inp.kind = "Timeout"
    /\ out.kind = "Timeout"
    /\ out.time = next_query
    /\ next_query = TimeAdd(last_now, QUERY_INTERVAL)
    /\ next_advertise = U64_MAX

----------------------------------------------------------------------------
(* C18: the state after Server::new                                        *)

\* the server is as Server::new returned it: nothing was called yet
JustConstructed == inp.kind = "None"

\* what Server::new sets whatever the iterator yields
C18_Counters ==
    /\ last_now = 0
    /\ next_advertise_idx = 0
    /\ next_query_idx = 0
    /\ txid_query = 0
    /\ next_txid = 1

\* C18 as stated: after Server::new, for any iterator of services,
\* next_advertise = 3000, next_query = 5000, both indices are 0,
\* txid_query = 0 and next_txid = 1
C18_InitialState ==
    JustConstructed =>
        /\ next_advertise = 3000
        /\ next_query = 5000
        /\ C18_Counters

\* C18: after Server::new both indices are 0, txid_query = 0 and
\* next_txid = 1; next_advertise = 3000 and next_query = 5000 where the
\* iterator yields a service, and both are u64::MAX where it yields none
C18_InitialStateByServices ==
    JustConstructed =>
        /\ C18_Counters
        /\ services # <<>> => next_advertise = 3000 /\ next_query = 5000
        /\ services = <<>> => next_advertise = U64_MAX /\ next_query = U64_MAX

\* the server constructed from an empty iterator, with no deadline
C18_Witness ==
    /\ JustConstructed
    /\ services = <<>>
    /\ local_ips = <<>>
    /\ next_advertise = U64_MAX
    /\ next_query = U64_MAX
    /\ next_txid = 1

----------------------------------------------------------------------------
(* C19: the round trip of a message                                        *)

\* two records are equal, names by their segments
SameRecord(a, b) ==
    /\ a.t = b.t
    /\ a.address = b.address
    /\ a.text = b.text
    /\ a.priority = b.priority
    /\ a.weight = b.weight
    /\ a.port = b.port
    /\ LabelIter(a.name) = LabelIter(b.name)

\* two answers are equal
SameAnswer(a, b) ==
    /\ LabelIter(a.name) = LabelIter(b.name)
    /\ a.atype = b.atype
    /\ a.aclass = b.aclass
    /\ a.ttl = b.ttl
    /\ SameRecord(a.record, b.record)

\* the parse r gave the message m
SameMessage(m, r) ==
    /\ r.ok
    /\ r.v.kind = m.kind
    /\ r.v.id = m.id
    /\ r.v.flags = m.flags
    /\ Len(r.v.queries) = Len(m.queries)
    /\ Len(r.v.answers) = Len(m.answers)
    /\ \A i \in 1..Len(m.queries) : SameQuery(r.v.queries[i], m.queries[i])
    /\ \A i \in 1..Len(m.answers) : SameAnswer(r.v.answers[i], m.answers[i])

\* C19: parsing the serialization of a well-formed message, written into a
\* large enough buffer, yields the message: the id, the flags and the counts,
\* and questions and answers with the names, PTR names and SRV targets of
\* the original, segment by segment
C19_RoundTrip ==
    (out.op = "serialize" /\ out.kind = "Packet" /\ ~out.overflow) =>
        SameMessage(out.msg, MessageParse(inp.data))

----------------------------------------------------------------------------
(* C20: the pointers of a name                                             *)

\* more pointers than any chain without a cycle has in the packets parsed
WalkFuel == MaxChain + 4

\* the name at offset pos of the packet ctx, read as the wire format says:
\* n is the number of pointers on the way to its end, counted up to fuel
\* (a cycle uses up the fuel), outside tells that the way leaves the packet
RECURSIVE NameWalk(_, _, _)
NameWalk(ctx, pos, fuel) ==
    IF pos >= Len(ctx) THEN [n |-> 0, outside |-> TRUE]
    ELSE LET len == ctx[pos + 1]
         IN  IF len = 0 THEN [n |-> 0, outside |-> FALSE]
             ELSE IF BitAnd(len, 192) = 0 THEN NameWalk(ctx, pos + 1 + len, fuel)
             ELSE IF pos + 1 >= Len(ctx) THEN [n |-> 0, outside |-> TRUE]
             ELSE IF fuel = 0 THEN [n |-> 1, outside |-> FALSE]
             ELSE LET w == NameWalk(ctx, (len % 64) * 256 + ctx[pos + 2], fuel - 1)
                  IN  [w EXCEPT !.n = w.n + 1]

\* C20 for a parsed packet whose first name has the walk w
C20_Holds(w) ==
    /\ out.kind \in {"Parsed", "ParseError"}
    /\ (w.outside \/ w.n > 4) => out.kind = "ParseError"
    /\ (inp.data \in {ChainBytes(k) : k \in 0..4}) => out.kind = "Parsed"
    /\ inp.data \in RecursiveLabelTests => out.kind = "ParseError"

\* C20: Message::parse returns Ok or an error for every byte string, and an
\* error where the first name has a pointer to outside the packet, a pointer
\* to itself, a cycle of pointers or a chain of more than 4 pointers; a
\* chain of up to 4 pointers is followed
C20_PointerSafety ==
    out.op = "parse" => C20_Holds(NameWalk(inp.data, 12, WalkFuel))

\* a chain of five pointers that ends at a name was rejected
C20_Witness ==
    /\ inp.data = ChainBytes(5)
    /\ NameWalk(inp.data, 12, WalkFuel) = [n |-> 5, outside |-> FALSE]
    /\ out.op = "parse"
    /\ out.kind = "ParseError"

----------------------------------------------------------------------------
(* C21: packets above the capacities                                       *)

\* the counts a header declares
DeclaredQuestions(d) == IF Len(d) < 12 THEN 0 ELSE BeU16(SubSeq(d, 5, 6))
DeclaredAnswers(d) == IF Len(d) < 12 THEN 0 ELSE BeU16(SubSeq(d, 7, 8))
IsResponseHeader(d) == Len(d) >= 4 /\ BitAnd(BeU16(SubSeq(d, 3, 4)), 32768) # 0

\* handle has returned Timeout(poll_timeout()) and left the server as it was
C21_Rejected ==
    /\ out'.kind = "Timeout"
    /\ out'.time = poll_timeout
    /\ UNCHANGED server

\* C21 as stated, one step: a packet that declares more questions than QLEN
\* or more answers than ALEN, or holds a name of more than LLEN parts, is
\* rejected as a whole
C21_AnyPacket_Step ==
    (/\ inp'.kind = "Packet"
     /\ \/ DeclaredQuestions(inp'.data) > QLEN
        \/ DeclaredAnswers(inp'.data) > ALEN
        \/ inp'.data = PartsBytes(LLEN + 1)) => C21_Rejected

\* C21 as stated: too-small capacities reject the packet, whatever it is
C21_CapacitiesReject == [][C21_AnyPacket_Step]_vars

\* C21, one step: a packet that declares more questions than QLEN, a
\* response that declares more answers than ALEN and a packet with a name of
\* more than LLEN parts are rejected as a whole, with Timeout(poll_timeout())
\* and no change of the server; the packets at the capacities are taken: the
\* server of SvcA answers the requests and reports the service of the response
C21_Step ==
    inp'.kind = "Packet" =>
        /\ (\/ DeclaredQuestions(inp'.data) > QLEN
            \/ IsResponseHeader(inp'.data) /\ DeclaredAnswers(inp'.data) > ALEN
            \/ inp'.data = PartsBytes(LLEN + 1)) => C21_Rejected
        /\ (services = <<SvcA>> /\ inp'.data \in {QuestionsBytes(QLEN), PartsBytes(LLEN)})
              => out'.kind = "Packet"
        /\ (services = <<SvcA>> /\ inp'.data = AnswersBytes(ALEN)) => out'.kind = "Remote"

\* C21: capacities reject and do not truncate, as a property of every step
C21_CapacitiesRejectParsed == [][C21_Step]_vars

\* a response of ALEN + 1 answers, the first four those of a service of a
\* type served here, was rejected
C21_Witness ==
    /\ services = <<SvcA>>
    /\ inp.kind = "Packet"
    /\ inp.data = AnswersBytes(ALEN + 1)
    /\ out.kind = "Timeout"
    /\ out.op = "parse_error"
    /\ out.time = poll_timeout

----------------------------------------------------------------------------
(* C22: the class of the answers                                           *)

\* the answers that describe this host alone
C22_FlushTypes == {QT("SRV"), QT("TXT"), QT("A"), QT("AAAA")}

\* every answer of m of one of the types has the class
C22_AllCarry(m, types, aclass) ==
    \A i \in 1..Len(m.v.answers) :
        m.v.answers[i].atype \in types => m.v.answers[i].aclass = aclass

C22_Holds(m, request) ==
    /\ m.ok
    /\ out.op = "advertise" => C22_AllCarry(m, C22_FlushTypes, QT("Multicast"))
    /\ (out.op = "response" /\ request.v.queries[1].qclass = QT("Multicast"))
          => C22_AllCarry(m, C22_FlushTypes, QT("Multicast"))
    /\ (out.op = "response" /\ request.v.queries[1].qclass = QT("IN"))
          => C22_AllCarry(m, C22_FlushTypes \cup {QT("PTR")}, QT("IN"))

\* C22: every SRV, TXT, A and AAAA answer of an advertisement has the class
\* 0x8001, those of a response to a request of class 0x8001 have it as well,
\* and every answer of a response to a request of class IN has the class IN
C22_CacheFlushClass ==
    (out.kind = "Packet" /\ out.op \in {"advertise", "response"})
        => C22_Holds(MessageParse(out.bytes), MessageParse(inp.data))

----------------------------------------------------------------------------
(* C23: the four answers of a service                                      *)

\* a is PTR, SRV, TXT and A or AAAA of the service s, in this order
C23_Four(a, s) ==
    /\ Len(a) = 4
    /\ a[1].atype = QT("PTR") /\ a[1].record.t = "PTR"
    /\ a[1].name = s.service_type /\ a[1].ttl = <<0, 4500>>
    /\ a[1].record.name = s.instance_name
    /\ a[2].atype = QT("SRV") /\ a[2].record.t = "SRV"
    /\ a[2].name = s.instance_name /\ a[2].ttl = <<0, 120>>
    /\ a[2].record.priority = 0 /\ a[2].record.weight = 0
    /\ a[2].record.port = s.port /\ a[2].record.name = s.hostname
    /\ a[3].atype = QT("TXT") /\ a[3].record.t = "TXT"
    /\ a[3].name = s.instance_name /\ a[3].ttl = <<0, 120>>
    /\ a[3].record.text = <<0>>
    /\ a[4].atype = (IF s.ip_address.fam = 4 THEN QT("A") ELSE QT("AAAA"))
    /\ a[4].record.t = (IF s.ip_address.fam = 4 THEN "A" ELSE "AAAA")
    /\ a[4].name = s.hostname /\ a[4].ttl = <<0, 120>>
    /\ a[4].record.address = s.ip_address.o
    /\ LabelIter(s.instance_name) # <<>>
    /\ Tail(LabelIter(s.instance_name)) = LabelIter(s.service_type)
    /\ Head(LabelIter(s.instance_name)) \in {INST1, INST2, INST9}

\* C23: the answers the server makes of its services, in an advertisement and
\* in a response, are groups of four, each of them PTR (name = service_type,
\* ttl 4500, rdata = instance_name), SRV (name = instance_name, ttl 120,
\* priority 0, weight 0, the port, target = hostname), TXT (name =
\* instance_name, ttl 120, one NUL byte) and A or AAAA by the family of the
\* address (name = hostname, ttl 120, the ip) of one service, whose
\* instance_name is its service_type with the instance segment in front
C23_AsAnswers ==
    (out.kind = "Packet" /\ out.op \in {"advertise", "response"}) =>
        LET a == out.msg.answers
        IN  /\ Len(a) % 4 = 0
            /\ \A g \in 0..((Len(a) \div 4) - 1) :
                  \E i \in 1..Len(services) :
                      C23_Four(SubSeq(a, 4 * g + 1, 4 * g + 4), services[i])

\* an advertisement of one service with an IPv6 address was sent
C23_Witness ==
    /\ out.kind = "Packet"
    /\ out.op = "advertise"
    /\ Len(out.msg.answers) = 4
    /\ out.msg.answers[4].atype = QT("AAAA")
    /\ C23_Four(out.msg.answers, services[1])

----------------------------------------------------------------------------
(* C24: the services of a response                                         *)

\* the SRV answers named like the target of the PTR answer p, and the
\* address answers named like a host
C24_SrvOf(answers, p) ==
    {i \in 1..Len(answers) : /\ answers[i].record.t = "SRV"
                             /\ LabelEq(answers[i].name, p.record.name)}
C24_AddrOf(answers, host) ==
    {i \in 1..Len(answers) : /\ answers[i].record.t \in {"A", "AAAA"}
                             /\ LabelEq(answers[i].name, host)}

\* an SRV answer for the PTR answer p exists, and an address for its target
C24_Qualifies(answers, p) ==
    \E i \in C24_SrvOf(answers, p) : C24_AddrOf(answers, answers[i].record.name) # {}

\* the ServiceInfo of the PTR answer p, its SRV and the address of that
C24_Assemble(answers, p) ==
    LET srv == answers[CHOOSE i \in C24_SrvOf(answers, p) :
                           C24_AddrOf(answers, answers[i].record.name) # {}]
        addr == answers[CHOOSE j \in C24_AddrOf(answers, srv.record.name) : TRUE]
    IN  [service_type |-> p.name, instance_name |-> p.record.name,
         hostname |-> srv.record.name, port |-> srv.record.port,
         ip_address |-> IF addr.record.t = "A" THEN V4(addr.record.address)
                        ELSE V6(addr.record.address),
         netmask |-> IF addr.record.t = "A" THEN NETMASK_FULL_V4 ELSE NETMASK_FULL_V6]

\* one ServiceInfo per PTR answer that has its SRV and address, in the order
\* of the PTR answers, without those of no host, no ip or no port, SLEN at most
C24_Expected(answers) ==
    LET is_ptr(a) == a.record.t = "PTR"
        qualifies(p) == C24_Qualifies(answers, p)
        ptrs == SelectSeq(SelectSeq(answers, is_ptr), qualifies)
        is_complete(s) == /\ ~LabelIsEmpty(s.hostname)
                          /\ s.ip_address # DEFAULT_ADDR
                          /\ s.port # 0
        infos == SelectSeq([i \in 1..Len(ptrs) |-> C24_Assemble(answers, ptrs[i])],
                           is_complete)
    IN  IF Len(infos) <= SLEN THEN infos ELSE SubSeq(infos, 1, SLEN)

C24_Holds(m) ==
    (m.ok /\ m.v.kind = "Response") =>
        from_answers(m.v.answers, <<>>) = C24_Expected(m.v.answers)

\* C24: from the answers of a response from_answers yields one ServiceInfo
\* per PTR answer for which an SRV answer named like its target and an
\* address answer named like the target of that exist, in the order of the
\* PTR answers and SLEN at most, with the type, instance, host, port, ip and
\* full netmask of these answers, whatever the order of the answers, and no
\* ServiceInfo without a host, an ip or a port
C24_ServiceAssembly == inp.kind = "Packet" => C24_Holds(MessageParse(inp.data))

----------------------------------------------------------------------------
(* C25: the equality of labels                                             *)

\* s split on '.': the segments between the dots, one more than dots
RECURSIVE C25_Split(_)
C25_Split(s) ==
    IF \E i \in 1..Len(s) : s[i] = DOT
    THEN LET d == CHOOSE i \in 1..Len(s) : s[i] = DOT /\ \A j \in 1..(i - 1) : s[j] # DOT
         IN  <<SubSeq(s, 1, d - 1)>> \o C25_Split(SubSeq(s, d + 1, Len(s)))
    ELSE <<s>>

\* the segments of a name: none for the empty name
C25_Segments(name) == IF name = <<>> THEN <<>> ELSE C25_Split(name)

\* C25: two labels are equal if and only if the names they spell have the
\* same dot-separated segments, case-sensitive, whatever their representation:
\* parsed from the wire, also through pointers, built from one dotted string,
\* built part by part with push_back and push_front; and a label equals a
\* string s if and only if its segments are those of s split on '.'
C25_StructuralEquality ==
    out.kind = "Compared" =>
        /\ out.msg.eq <=> (C25_Segments(inp.data[1].name) = C25_Segments(inp.data[2].name))
        /\ out.msg.eq_str <=> (C25_Segments(inp.data[1].name) = C25_Split(inp.data[3]))

\* a label parsed through a pointer was found equal to one built with
\* push_front and to the string "a.l"
C25_Witness ==
    /\ out.kind = "Compared"
    /\ inp.data[1].label = ParsedAt(7)
    /\ inp.data[2].label = LabelPushFront(LabelNew(<<108>>), <<97>>)
    /\ inp.data[3] = <<97, 46, 108>>
    /\ out.msg.eq
    /\ out.msg.eq_str

----------------------------------------------------------------------------
(* C26: transaction ids                                                    *)

\* the id a packet carries
PacketId(bytes) == BeU16(SubSeq(bytes, 1, 2))

\* C26, one step: a query packet carries the value of the counter, which
\* then is that value plus 1 modulo 65536, and txid_query is the id of the
\* packet; an advertisement carries id 0, a response the id of its request,
\* and neither they nor any other step changes the two
C26_Step ==
    /\ (out'.kind = "Packet" /\ out'.op = "query") =>
          /\ PacketId(out'.bytes) = next_txid
          /\ txid_query' = PacketId(out'.bytes)
          /\ next_txid' = (PacketId(out'.bytes) + 1) % 65536
          /\ next_txid = 65535 => next_txid' = 0
          /\ next_txid < 65535 => next_txid' = next_txid + 1
    /\ (out'.kind = "Packet" /\ out'.op = "advertise") => PacketId(out'.bytes) = 0
    /\ (out'.kind = "Packet" /\ out'.op = "response") =>
          PacketId(out'.bytes) = PacketId(inp'.data)
    /\ out'.op # "query" => UNCHANGED <<next_txid, txid_query>>

\* C26: the ids of the query packets come from a 16 bit counter that starts
\* at 1, goes up by 1 with each query packet and wraps from 65535 to 0; after
\* a query packet txid_query is its id and next_txid the id after it;
\* advertisements and responses leave the counter alone
C26_TransactionIds ==
    /\ JustConstructed => next_txid = 1
    /\ next_txid \in 0..65535
    /\ [][C26_Step]_vars

\* the query packet with the id 65535 went out at the time of the next
\* round and the counter is at 0
C26_Witness ==
    /\ out.kind = "Packet"
    /\ out.op = "query"
    /\ last_now = QUERY_INTERVAL
    /\ PacketId(out.bytes) = 65535
    /\ txid_query = 65535
    /\ next_txid = 0

----------------------------------------------------------------------------
(* C27: advertisements before queries                                      *)

\* the packets of the advertisement round that are still to come
C27_Remaining == Len(local_ips) - next_advertise_idx

\* C27, one step of handle(Timeout(now)): when now >= next_advertise the
\* output is an advertisement; a query is emitted only when no advertisement
\* is due and now >= next_query, and it is emitted then when there is a local
\* ip; when neither is due the output is Timeout.  With both due, the
\* advertisement leaves the query due, and it either leaves the advertisement
\* due with one packet less to come, or it was the last of the round and no
\* advertisement is due at now any more: the next call at now emits the
\* query, after K advertisements at most
C27_Step ==
    inp'.kind = "Timeout" =>
        LET now == inp'.now
        IN  /\ now >= next_advertise => (out'.kind = "Packet" /\ out'.op = "advertise")
            /\ (out'.kind = "Packet" /\ out'.op = "query") =>
                  (~(now >= next_advertise) /\ now >= next_query)
            /\ (~(now >= next_advertise) /\ now >= next_query /\ local_ips # <<>>) =>
                  (out'.kind = "Packet" /\ out'.op = "query")
            /\ (~(now >= next_advertise) /\ ~(now >= next_query)) =>
                  (out'.kind = "Timeout" /\ out'.time = poll_timeout)
            /\ (now >= next_advertise /\ now >= next_query) =>
                  /\ C27_Remaining \in 1..Len(local_ips)
                  /\ next_query' = next_query /\ next_query_idx' = next_query_idx
                  /\ IF C27_Remaining = 1
                     THEN ~(now >= next_advertise')
                     ELSE now >= next_advertise' /\ C27_Remaining' = C27_Remaining - 1

----------------------------------------------------------------------------
(* C28: requests before the first query                                    *)

\* the request has a PTR question for the type of a service of this server
\* whose subnet holds the sender
C28_AsksLocal(m, from) ==
    /\ IsRequest(m)
    /\ \E i \in 1..Len(m.v.queries), j \in 1..Len(services) :
          /\ m.v.queries[i].qtype = QT("PTR")
          /\ LabelEq(m.v.queries[i].name, services[j].service_type)
          /\ is_same_network(services[j].ip_address, services[j].netmask, from.ip)

\* the counter of ids is where Server::new put it: no query packet was sent
C28_NoQueryYet == next_txid = 1

C28_Holds(m) == (C28_NoQueryYet /\ C28_AsksLocal(m, inp'.from)) => out'.kind = "Packet"

\* C28, one step: while the server has sent no query packet, a request with
\* a PTR question for the type of a local service, from an address in the
\* subnet of that service, is answered with a Packet, whatever its id
C28_Step == inp'.kind = "Packet" => C28_Holds(MessageParse(inp'.data))

\* C28: no request is taken for a self-echo before the first query
C28_NoEchoBeforeQuery == [][C28_Step]_vars

----------------------------------------------------------------------------
(* C29: the queries of a round, heard again                                *)

\* how many query packets of the most recent round are out
C29_Emitted == IF next_query_idx = 0 THEN Len(local_ips) ELSE next_query_idx

\* the query packets of the most recent round, each with the address it was
\* sent from: the packet of local_ips[k] took its id from the counter
\* C29_Emitted - k packets before the last one
C29_RoundPackets ==
    {<<do_query(BUFLEN, local_ips[k],
                (txid_query + 65536 - (C29_Emitted - k)) % 65536).bytes,
       local_ips[k].addr>> : k \in 1..C29_Emitted}

\* C29, one step: a query packet of the most recent round that comes back
\* from the local ip that sent it is not answered with a Packet
C29_Step ==
    (/\ inp'.kind = "Packet"
     /\ next_txid # 1
     /\ <<inp'.data, inp'.from.ip>> \in C29_RoundPackets) => out'.kind # "Packet"

\* C29: the server answers none of the queries of its most recent round, not
\* the last and not those before it
C29_NoSelfAnswer == [][C29_Step]_vars

----------------------------------------------------------------------------
(* C30: the indices of the rounds                                          *)

\* C30: with local ips, next_advertise_idx and next_query_idx are below
\* their number; a server with services has a local ip; so handle_timeout
\* reads local_ips[next_advertise_idx] and local_ips[next_query_idx] within
\* bounds and no call of handle(Timeout) fails
C30_IndicesInRange ==
    /\ local_ips # <<>> =>
          /\ next_advertise_idx \in 0..(Len(local_ips) - 1)
          /\ next_query_idx \in 0..(Len(local_ips) - 1)
    /\ services # <<>> => local_ips # <<>>
    /\ local_ips = <<>> => (next_advertise_idx = 0 /\ next_query_idx = 0)
    /\ inp.kind = "Timeout" => out.kind # "Panic"

\* query() gave a server with a service a second local ip, and the first
\* packet of a round over the two is out
C30_Witness ==
    /\ services = <<SvcA>>
    /\ Len(local_ips) = 2
    /\ Len(query_targets) = SLEN
    /\ inp.kind = "Timeout"
    /\ out.kind = "Packet"
    /\ out.op = "query"
    /\ next_query_idx = 1

----------------------------------------------------------------------------
(* C31: the local ips                                                      *)

\* the (ip, netmask) pairs of the services, then those of the query targets
C31_Pairs ==
    [i \in 1..Len(services) |-> LocalIp(services[i].ip_address, services[i].netmask)]
    \o [i \in 1..Len(query_targets) |-> query_targets[i].local_ip]

\* a sequence without the later occurrences of its elements
RECURSIVE C31_Dedup(_)
C31_Dedup(seq) ==
    IF seq = <<>> THEN <<>>
    ELSE LET front == C31_Dedup(SubSeq(seq, 1, Len(seq) - 1))
             last == seq[Len(seq)]
         IN  IF \E i \in 1..Len(front) : front[i] = last THEN front
             ELSE Append(front, last)

----------------------------------------------------------------------------
(* C32: the query targets                                                  *)

\* the query packet with the message r holds a PTR question for every
\* target bound to the local ip it was sent from
C32_AsksForTargets(r) ==
    \A i \in 1..Len(query_targets) :
        query_targets[i].local_ip.addr = out.cast.from => AsksFor(r, query_targets[i])

\* C32: the (ip, netmask) of every query target that query() accepted is in
\* local_ips, so every query round has a packet sent from that ip, and the
\* query packet sent from an ip holds a PTR question for each target bound
\* to it
C32_TargetsServed ==
    /\ \A i \in 1..Len(query_targets) :
          \E k \in 1..Len(local_ips) : local_ips[k] = query_targets[i].local_ip
    /\ (out.kind = "Packet" /\ out.op = "query") =>
          C32_AsksForTargets(MessageParse(out.bytes))

\* ------------------------------------------------------------------------
\* C33

\* C33: handle(Input::Packet(..)) changes no field of the server, whatever
\* the packet holds and whatever the output is: last_now, the deadlines, the
\* indices into local_ips, txid_query, next_txid, services, query_targets
\* and local_ips are after the call what they were before it
C33_PacketReadOnly == [][inp'.kind = "Packet" => UNCHANGED server]_vars

\* a response that gives Remote is handled in the middle of a query round
C33_Witness ==
    /\ inp.kind = "Packet"
    /\ out.kind = "Remote"
    /\ next_query_idx = 1
    /\ Len(local_ips) = 2

\* ------------------------------------------------------------------------
\* C34

\* what C34 asks of the message m of the packet that was sent
C34_Holds(m) ==
    /\ m.ok
    /\ out.op = "advertise" => Len(m.v.answers) >= 4
    /\ out.op = "query" => Len(m.v.queries) >= 1

\* C34: no packet of a round is empty: every advertisement holds at least
\* the four answers of one service of its local ip and every query holds at
\* least one question, also for a local ip that query() added to a server
\* with services
C34_NoEmptyMessage ==
    (out.kind = "Packet" /\ out.op \in {"advertise", "query"}) =>
        C34_Holds(MessageParse(out.bytes))

\* ------------------------------------------------------------------------
\* C35

\* the answers of service s, of the class of the first question, are among
\* the answers of the response that was sent
C35_Answered(s) ==
    LET theirs == as_answers(s, out.msg.queries[1].qclass)
    IN  \A k \in 1..Len(theirs) :
            \E n \in 1..Len(out.msg.answers) : out.msg.answers[n] = theirs[k]

\* C35: a response is sent from the ip address of a service whose answers
\* it holds, also when the subnets of the services overlap
C35_FromAnsweringService ==
    (out.kind = "Packet" /\ out.op = "response") =>
        \E i \in 1..Len(services) :
            /\ services[i].ip_address = out.cast.from
            /\ C35_Answered(services[i])

\* ------------------------------------------------------------------------
\* C36

\* as_answers(Multicast) of the services of local, one after the other, in
\* the order of services
RECURSIVE C36_Expected(_, _)
C36_Expected(svcs, local) ==
    IF svcs = <<>> THEN <<>>
    ELSE (IF Head(svcs).ip_address = local.addr /\ Head(svcs).netmask = local.mask
          THEN as_answers(Head(svcs), QT("Multicast")) ELSE <<>>)
         \o C36_Expected(Tail(svcs), local)

\* what C36 asks of an advertisement for local whose bytes parse as r
C36_Holds(r, local, expected) ==
    /\ r.ok
    /\ r.v.kind = "Response"
    /\ r.v.id = 0
    /\ r.v.flags = StandardResponse
    /\ r.v.flags = 33792
    /\ r.v.queries = <<>>
    /\ Len(r.v.answers) = Len(expected)
    /\ \A i \in 1..Len(expected) : SameAnswer(r.v.answers[i], expected[i])
    /\ out'.cast = CastMulti(local.addr)

\* C36, one step: the advertisement for the local ip L = local_ips[
\* next_advertise_idx] is a Response with id 0, the flags standard_response
\* (0x8400: QR and AA set, opcode 0, RA clear), no question, and as answers
\* as_answers(Multicast) of the services whose (ip, netmask) is L, in the
\* order of services, and nothing of another service; it is multicast from
\* L.addr
C36_Step ==
    (inp'.kind = "Timeout" /\ out'.kind = "Packet" /\ out'.op = "advertise") =>
        C36_Holds(MessageParse(out'.bytes), local_ips[next_advertise_idx + 1],
                  C36_Expected(services, local_ips[next_advertise_idx + 1]))

\* C36: the content of an advertisement, as a property of every step
C36_AdvertisementContent == [][C36_Step]_vars

\* of two services on two local ips, the second was advertised alone
C36_Witness ==
    /\ services = <<SvcA, SvcB>>
    /\ out.kind = "Packet"
    /\ out.op = "advertise"
    /\ out.cast = CastMulti(IP_B)
    /\ Len(MessageParse(out.bytes).v.answers) = 4

\* ------------------------------------------------------------------------
\* C37

\* the service types asked for from local: those of the services of local,
\* then those of the query targets of local
RECURSIVE C37_Names(_, _, _)
C37_Names(svcs, qts, local) ==
    IF svcs # <<>>
    THEN (IF Head(svcs).ip_address = local.addr /\ Head(svcs).netmask = local.mask
          THEN <<Head(svcs).service_type>> ELSE <<>>)
         \o C37_Names(Tail(svcs), qts, local)
    ELSE IF qts # <<>>
    THEN (IF Head(qts).local_ip = local THEN <<Head(qts).service_type>> ELSE <<>>)
         \o C37_Names(svcs, Tail(qts), local)
    ELSE <<>>

\* what C37 asks of a query for local whose bytes are b and parse as r
C37_Holds(b, r, local, names) ==
    /\ r.ok
    /\ r.v.kind = "Request"
    /\ r.v.flags = StandardRequest
    /\ r.v.flags = 256
    /\ SubSeq(b, 7, 12) = <<0, 0, 0, 0, 0, 0>>
    /\ Len(r.v.queries) = Len(names)
    /\ \A i \in 1..Len(names) :
          /\ LabelIter(r.v.queries[i].name) = LabelIter(names[i])
          /\ r.v.queries[i].qtype = QT("PTR")
          /\ r.v.queries[i].qclass = QT("IN")
    /\ out'.cast = CastMulti(local.addr)

\* C37, one step: the query for the local ip L = local_ips[next_query_idx]
\* is a Request with the flags standard_request (0x0100: QR and opcode 0, RD
\* set) and the counts of answers, authorities and additionals 0; its
\* questions are one PTR question of class IN per service whose (ip,
\* netmask) is L, named by its service_type, then one per query target of L,
\* and no other; it is multicast from L.addr
C37_Step ==
    (inp'.kind = "Timeout" /\ out'.kind = "Packet" /\ out'.op = "query") =>
        C37_Holds(out'.bytes, MessageParse(out'.bytes), local_ips[next_query_idx + 1],
                  C37_Names(services, query_targets, local_ips[next_query_idx + 1]))

\* C37: the content of a query, as a property of every step
C37_QueryContent == [][C37_Step]_vars

\* a query from the ip of a service and of a query target asks for both,
\* while the server has a service on another ip
C37_Witness ==
    /\ services = <<SvcA, SvcB>>
    /\ Len(query_targets) = 1
    /\ out.kind = "Packet"
    /\ out.op = "query"
    /\ out.cast = CastMulti(IP_A)
    /\ Len(MessageParse(out.bytes).v.queries) = 2

\* ------------------------------------------------------------------------
\* C38

\* the place, among the answers, of the first PTR answer that names the
\* instance of s; past the end where there is none
C38_PtrAt(answers, s) ==
    LET at == {i \in 1..Len(answers) :
                  /\ answers[i].atype = QT("PTR")
                  /\ LabelIter(answers[i].record.name) = LabelIter(s.instance_name)}
    IN  IF at = {} THEN Len(answers) + 1
        ELSE CHOOSE i \in at : \A j \in at : i <= j

\* the services of the message m that the server of the state would report
C38_Alive(m) ==
    LET keep(s) == is_matching_service(s, services, query_targets)
    IN  SelectSeq(from_answers(m.v.answers, <<>>), keep)

\* what C38 asks of the Remote a response gave: it is one of alive, the
\* services that survive, and no PTR answer of them comes before its own
C38_First(answers, alive, first) ==
    /\ \E i \in 1..Len(alive) : alive[i] = out'.remote
    /\ \A i \in 1..Len(alive) : first <= C38_PtrAt(answers, alive[i])

\* what C38 asks of a step that handles a packet that parses as m
C38_Holds(m, alive) ==
    IF m.ok /\ m.v.kind = "Response"
    THEN /\ out'.kind \in {"Timeout", "Remote"}
         /\ out'.kind = "Remote" <=> alive # <<>>
         /\ out'.kind = "Remote" =>
               C38_First(m.v.answers, alive, C38_PtrAt(m.v.answers, out'.remote))
         /\ UNCHANGED server
    ELSE out'.kind # "Remote"

\* a step that handles a packet that parses as m
C38_Parsed(m) == C38_Holds(m, IF m.ok THEN C38_Alive(m) ELSE <<>>)

\* C38, one step: a response gives one Remote at most, the service that
\* survives is_matching_service whose PTR answer comes first; the others are
\* kept nowhere in the server, and Remote is the output of no call but that
\* of a packet that holds the service as a response
C38_Step ==
    /\ inp'.kind = "Packet" => C38_Parsed(MessageParse(inp'.data))
    /\ out'.kind = "Remote" => inp'.kind = "Packet"

\* C38: one discovery per response, as a property of every step
C38_OneRemote == [][C38_Step]_vars

\* of the two peers of a response that both survive, the one of the first
\* PTR answer was reported
C38_Witness ==
    /\ inp.kind = "Packet"
    /\ inp.data = TwoPeers(Peer3, Peer1)
    /\ Len(C38_Alive(MessageParse(inp.data))) = 2
    /\ out.kind = "Remote"
    /\ LabelIter(out.remote.service_type) = LabelIter(Peer3.service_type)

\* ------------------------------------------------------------------------
\* C39

\* what C39 asks of the output for a packet that parses as m
C39_In(m) ==
    /\ (m.ok /\ m.v.kind = "Response") => out'.kind # "Packet"
    /\ (m.ok /\ m.v.kind = "Request") => out'.kind # "Remote"

\* what C39 asks of the packet sent, whose bytes parse as r
C39_Out(r) ==
    /\ r.ok
    /\ out'.op \in {"query", "advertise", "response"}
    /\ r.v.kind = (IF out'.op = "query" THEN "Request" ELSE "Response")

\* C39, one step: Input::Timeout gives no Remote, a packet that parses as a
\* Response gives no Packet, a packet that parses as a Request gives no
\* Remote; the bytes of a query parse as a Request and the bytes of an
\* advertisement and of a response parse as a Response
C39_Step ==
    /\ inp'.kind = "Timeout" => out'.kind # "Remote"
    /\ inp'.kind = "Packet" => C39_In(MessageParse(inp'.data))
    /\ out'.kind = "Packet" => C39_Out(MessageParse(out'.bytes))

\* C39: the kind of the output follows the kind of the input, as a property
\* of every step
C39_OutputKind == [][C39_Step]_vars

\* a response was sent in answer to a request
C39_Witness ==
    /\ inp.kind = "Packet"
    /\ MessageParse(inp.data).ok
    /\ MessageParse(inp.data).v.kind = "Request"
    /\ out.kind = "Packet"
    /\ out.op = "response"
    /\ MessageParse(out.bytes).v.kind = "Response"

\* ------------------------------------------------------------------------
\* C40

\* the call of the step is a write, a write_u8 or a reserve of more bytes
\* than the Writer w has left
C40_NoRoom(w) ==
    /\ inp'.data[1] \in {"write", "write_u8", "reserve"}
    /\ w.position + (IF inp'.data[1] = "reserve" THEN inp'.data[2][1]
                     ELSE Len(inp'.data[2])) > w.cap

\* what C40 asks of a call that takes the Writer from w to v
C40_Holds(w, v) ==
    /\ v.position <= v.cap
    /\ Len(v.buf) <= v.cap
    /\ (~w.overflow /\ C40_NoRoom(w)) =>
          /\ v.overflow
          /\ v.position = w.position
          /\ v.buf = w.buf
    /\ w.overflow =>
          /\ v.overflow
          /\ v.position = w.position
          /\ v.buf = w.buf
          /\ v.lookup = w.lookup

\* C40, one step: a write, write_u8 or reserve that does not fit sets
\* overflow and writes no byte; once overflow is set it stays set, position
\* stays where it is, no write, write_u8 or write_reservation changes a byte
\* of the buffer and no push_label adds an entry to the lookup; position is
\* never beyond the length of the buffer
C40_Step == inp'.kind = "Writer" => C40_Holds(out.msg.w, out'.msg.w)

\* C40: the overflow of the Writer is sticky, as a property of every step
C40_StickyOverflow == [][C40_Step]_vars

============================================================================
